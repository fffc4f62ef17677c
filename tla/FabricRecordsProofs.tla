------------------------ MODULE FabricRecordsProofs ------------------------
(***************************************************************************)
(* What reaches a reader through the Fabric: frames are whole, views of    *)
(* authority catch up, transforms hold what was withdrawn, and             *)
(* calibrations that ended stay ended, for any numbers of slots,           *)
(* resources, authorities, samples, requests and steps.                    *)
(***************************************************************************)
EXTENDS MCFabricRecords, ControlAuthorityProofs, FiniteSetTheorems, SequenceTheorems,
        NaturalsInduction, WellFoundedInduction

---------------------------------------------------------------------------
(* The camera ring.                                                         *)

Even(n) == n % 2 = 0
Whole(s) == hdr[s] = lo[s] /\ lo[s] = hi[s]

\* The words and frames of each slot have their types, and a slot whose sequence
\* is even is whole.
SlotsAreWhole ==
  /\ seq \in [Ring!Slot -> Nat]
  /\ DOMAIN hdr = Ring!Slot /\ DOMAIN lo = Ring!Slot /\ DOMAIN hi = Ring!Slot
  /\ slot \in Ring!Slot \cup {-1}
  /\ host \in Nat
  /\ \A s \in Ring!Slot : Even(seq[s]) => Whole(s)

\* While the host writes, the sequence of its slot is odd and the slot is not the
\* one that readers are pointed at; all others are even.
Writing(s) ==
  /\ s \in Ring!Slot /\ s # slot
  /\ w.slot = s /\ w.odd = seq[s] /\ ~Even(seq[s])
  /\ w.pc \in {"low", "high", "commit"} => hdr[s] = w.frame
  /\ w.pc \in {"high", "commit"} => lo[s] = w.frame
  /\ w.pc = "commit" => hi[s] = w.frame
WriterIsAhead ==
  /\ w.pc \in {"idle", "header", "low", "high", "commit", "point"}
  /\ w.pc \in {"header", "low", "high", "commit"} => Writing(w.slot)
  /\ w.pc = "point" => w.slot \in Ring!Slot
  /\ up => \A s \in Ring!Slot : Even(seq[s]) \/ (w.pc \in {"header", "low", "high", "commit"} /\ s = w.slot)
  /\ ~up => w.pc = "idle"

\* A BufferRef of this host is of the frame in its slot, or the slot has gone on.
Refers(r) ==
  /\ r.slot \in Ring!Slot /\ r.gen \in Nat /\ Even(r.gen)
  /\ r.boot \in Nat /\ r.boot <= host
  /\ r.boot = host => /\ r.gen <= seq[r.slot]
                      /\ seq[r.slot] = r.gen => hdr[r.slot] = r.frame

\* The Provider and the reader hold the mapping while they read, and what they
\* have read is what the slot still has, if its sequence is the one they saw.
ProviderReads ==
  /\ p.pc \in {"idle", "before", "header", "after", "made"}
  /\ p.pc # "idle" => "provider" \in maps /\ p.slot \in Ring!Slot
  /\ p.pc \in {"header", "after", "made"} => p.gen \in Nat /\ Even(p.gen) /\ p.gen <= seq[p.slot]
  /\ p.pc \in {"after", "made"} => (seq[p.slot] = p.gen => hdr[p.slot] = p.frame)
ReaderReads ==
  /\ c.pc \in {"idle", "open", "before", "low", "high", "after"}
  /\ c.pc # "idle" => Refers(c.ref)
  /\ c.pc \in {"before", "low", "high", "after"} => "consumer" \in maps
  /\ c.pc \in {"low", "high", "after"} => c.ref.gen <= seq[c.ref.slot]
  /\ c.pc \in {"high", "after"} => (seq[c.ref.slot] = c.ref.gen => c.lo = lo[c.ref.slot])
  /\ c.pc = "after" => (seq[c.ref.slot] = c.ref.gen => c.hi = hi[c.ref.slot])

\* The inductive invariant.
Frames ==
  /\ SlotsAreWhole /\ WriterIsAhead
  /\ ref # None => Refers(ref)
  /\ ProviderReads /\ ReaderReads
  /\ Ring!AcceptedIsReferenced

ringOthers == <<maps, p, lastGen, ref, c, payload>>

\* The slots only go on: a sequence never falls, and under an even one that
\* stays nothing changes.
GoesOn ==
  /\ host' = host
  /\ \A s \in Ring!Slot :
       /\ seq'[s] >= seq[s]
       /\ seq'[s] = seq[s] /\ Even(seq[s]) => hdr'[s] = hdr[s] /\ lo'[s] = lo[s] /\ hi'[s] = hi[s]

LEMMA RefsLast ==
  ASSUME Frames, SlotsAreWhole', GoesOn, NEW r, Refers(r)
  PROVE  Refers(r)'
BY DEF Frames, SlotsAreWhole, GoesOn, Refers

LEMMA ReadersLast ==
  ASSUME Frames, SlotsAreWhole', WriterIsAhead', GoesOn, UNCHANGED ringOthers
  PROVE  Frames'
<1>1. ref' # None => Refers(ref)' BY RefsLast DEF Frames, ringOthers
<1>2. ProviderReads'
  BY DEF Frames, SlotsAreWhole, GoesOn, ProviderReads, ringOthers
<1>3. (c.pc # "idle")' => Refers(c.ref)'
  <2> SUFFICES ASSUME c.pc # "idle" PROVE Refers(c.ref)' BY DEF ringOthers
  <2>1. Refers(c.ref) BY DEF Frames, ReaderReads
  <2> QED BY <2>1 DEF Frames, SlotsAreWhole, GoesOn, Refers, ringOthers
<1>4. ReaderReads'
  BY <1>3 DEF Frames, SlotsAreWhole, GoesOn, ReaderReads, ringOthers, Refers
<1>5. Ring!AcceptedIsReferenced' BY DEF Frames, Ring!AcceptedIsReferenced, ringOthers
<1> QED BY <1>1, <1>2, <1>4, <1>5 DEF Frames

\* The next slot is another one.
LEMMA NextIsAnother ==
  ASSUME NEW x \in Ring!Slot \cup {-1}
  PROVE  (x + 1) % Slots \in Ring!Slot /\ (x + 1) % Slots # x
<1>1. Slots \in Nat /\ Slots > 1 BY RingBounds
<1>2. CASE x + 1 = Slots BY <1>1, <1>2 DEF Ring!Slot
<1>3. CASE x + 1 < Slots BY <1>1, <1>3 DEF Ring!Slot
<1> QED BY <1>1, <1>2, <1>3 DEF Ring!Slot

LEMMA OddIsNext == ASSUME NEW n \in Nat PROVE Ring!Odd(n) \in Nat /\ Ring!Odd(n) > n /\ ~Even(Ring!Odd(n))
BY DEF Ring!Odd, Even

LEMMA BeginKeeps == ASSUME Frames, Ring!Begin PROVE Frames'
<1> DEFINE s == (slot + 1) % Slots
           n == Ring!Odd(seq[s])
<1>1. s \in Ring!Slot /\ s # slot BY NextIsAnother DEF Frames, SlotsAreWhole
<1>2. n \in Nat /\ n > seq[s] /\ ~Even(n) BY <1>1, OddIsNext DEF Frames, SlotsAreWhole
<1>3. /\ up /\ w.pc = "idle" /\ up' = up
      /\ w' = [pc |-> "header", slot |-> s, odd |-> n, frame |-> frame + 1]
      /\ seq' = [seq EXCEPT ![s] = n]
      /\ UNCHANGED <<host, hdr, lo, hi, slot, ringOthers>>
  BY DEF Ring!Begin, Ring!NextSlot, Ring!provider, Ring!consumer, ringOthers
<1> HIDE DEF s, n
<1>4. SlotsAreWhole' BY <1>1, <1>2, <1>3 DEF Frames, SlotsAreWhole, Whole
<1>5. GoesOn BY <1>1, <1>2, <1>3 DEF Frames, SlotsAreWhole, GoesOn
<1>6. WriterIsAhead'
  BY <1>1, <1>2, <1>3 DEF Frames, SlotsAreWhole, WriterIsAhead, Writing
<1> QED BY <1>3, <1>4, <1>5, <1>6, ReadersLast DEF ringOthers

\* A step of the host that leaves the slots as they are, or writes in its own.
LEMMA InSlotKeeps ==
  ASSUME Frames, Writing(w.slot), up, NEW here \in {"low", "high", "commit"}, up' = up,
         w.pc \in {"header", "low", "high", "commit"}, w' = [w EXCEPT !.pc = here], Writing(w.slot)',
         DOMAIN hdr' = Ring!Slot, DOMAIN lo' = Ring!Slot, DOMAIN hi' = Ring!Slot,
         \A s \in Ring!Slot \ {w.slot} : hdr'[s] = hdr[s] /\ lo'[s] = lo[s] /\ hi'[s] = hi[s],
         UNCHANGED <<host, seq, slot, ringOthers>>
  PROVE  Frames'
<1>1. SlotsAreWhole' BY DEF Frames, SlotsAreWhole, Whole, Writing
<1>2. GoesOn BY DEF Frames, SlotsAreWhole, GoesOn, Writing
<1>3. w'.pc = here /\ w'.slot = w.slot
  OBVIOUS
<1>4. WriterIsAhead' BY <1>3 DEF Frames, WriterIsAhead
<1> QED BY <1>1, <1>2, <1>4, ReadersLast

LEMMA HeaderKeeps == ASSUME Frames, Ring!Header PROVE Frames'
<1>1. /\ up /\ w.pc = "header" /\ up' = up /\ w' = [w EXCEPT !.pc = "low"]
      /\ hdr' = [hdr EXCEPT ![w.slot] = w.frame]
      /\ UNCHANGED <<host, seq, lo, hi, slot, ringOthers>>
  BY DEF Ring!Header, Ring!Write, Ring!provider, Ring!consumer, ringOthers
<1>2. Writing(w.slot) BY <1>1 DEF Frames, WriterIsAhead
<1>3. DOMAIN hdr' = Ring!Slot /\ Writing(w.slot)' BY <1>1, <1>2 DEF Frames, SlotsAreWhole, Writing
<1> QED BY <1>1, <1>2, <1>3, InSlotKeeps DEF Frames, SlotsAreWhole

LEMMA LowKeeps == ASSUME Frames, Ring!Low PROVE Frames'
<1>1. /\ up /\ w.pc = "low" /\ up' = up /\ w' = [w EXCEPT !.pc = "high"]
      /\ lo' = [lo EXCEPT ![w.slot] = w.frame]
      /\ UNCHANGED <<host, seq, hdr, hi, slot, ringOthers>>
  BY DEF Ring!Low, Ring!Write, Ring!provider, Ring!consumer, ringOthers
<1>2. Writing(w.slot) BY <1>1 DEF Frames, WriterIsAhead
<1>3. DOMAIN lo' = Ring!Slot /\ Writing(w.slot)' BY <1>1, <1>2 DEF Frames, SlotsAreWhole, Writing
<1> QED BY <1>1, <1>2, <1>3, InSlotKeeps DEF Frames, SlotsAreWhole

LEMMA HighKeeps == ASSUME Frames, Ring!High PROVE Frames'
<1>1. /\ up /\ w.pc = "high" /\ up' = up /\ w' = [w EXCEPT !.pc = "commit"]
      /\ hi' = [hi EXCEPT ![w.slot] = w.frame]
      /\ UNCHANGED <<host, seq, hdr, lo, slot, ringOthers>>
  BY DEF Ring!High, Ring!Write, Ring!provider, Ring!consumer, ringOthers
<1>2. Writing(w.slot) BY <1>1 DEF Frames, WriterIsAhead
<1>3. DOMAIN hi' = Ring!Slot /\ Writing(w.slot)' BY <1>1, <1>2 DEF Frames, SlotsAreWhole, Writing
<1> QED BY <1>1, <1>2, <1>3, InSlotKeeps DEF Frames, SlotsAreWhole

LEMMA OddEnds == ASSUME NEW n \in Nat, ~Even(n) PROVE n + 1 \in Nat /\ Even(n + 1)
BY DEF Even

LEMMA CommitKeeps == ASSUME Frames, Ring!Commit PROVE Frames'
<1> DEFINE n == w.odd + 1
<1>1. /\ up /\ w.pc = "commit" /\ up' = up /\ w' = [w EXCEPT !.pc = "point"]
      /\ seq' = [seq EXCEPT ![w.slot] = n]
      /\ UNCHANGED <<host, hdr, lo, hi, slot, ringOthers>>
  BY DEF Ring!Commit, Ring!Write, Ring!provider, Ring!consumer, ringOthers
<1>2. Writing(w.slot) BY <1>1 DEF Frames, WriterIsAhead
<1>3. n \in Nat /\ Even(n) /\ n > seq[w.slot]
  BY <1>2, OddEnds DEF Frames, SlotsAreWhole, Writing
<1> HIDE DEF n
<1>4. SlotsAreWhole' BY <1>1, <1>2, <1>3 DEF Frames, SlotsAreWhole, Whole, Writing
<1>5. GoesOn BY <1>1, <1>2, <1>3 DEF Frames, SlotsAreWhole, GoesOn, Writing
<1>6. w'.pc = "point" /\ w'.slot = w.slot BY <1>1 DEF Frames, WriterIsAhead
<1>7. WriterIsAhead' BY <1>1, <1>2, <1>3, <1>6 DEF Frames, SlotsAreWhole, WriterIsAhead, Writing
<1> QED BY <1>1, <1>4, <1>5, <1>7, ReadersLast DEF ringOthers

LEMMA PointKeeps == ASSUME Frames, Ring!Point PROVE Frames'
<1>1. /\ up /\ w.pc = "point" /\ slot' = w.slot /\ w' = [pc |-> "idle"]
      /\ UNCHANGED <<up, host, seq, hdr, lo, hi, ringOthers>>
  BY DEF Ring!Point, Ring!Idle, Ring!provider, Ring!consumer, ringOthers
<1>2. SlotsAreWhole' BY <1>1 DEF Frames, SlotsAreWhole, WriterIsAhead, Whole
<1>3. GoesOn BY <1>1 DEF Frames, SlotsAreWhole, GoesOn
<1>4. WriterIsAhead' BY <1>1 DEF Frames, WriterIsAhead
<1> QED BY <1>1, <1>2, <1>3, <1>4, ReadersLast DEF ringOthers

LEMMA DieKeeps == ASSUME Frames, Ring!Die PROVE Frames'
<1>1. /\ up' = FALSE /\ w' = [pc |-> "idle"]
      /\ UNCHANGED <<host, slot, seq, hdr, lo, hi, ringOthers>>
  BY DEF Ring!Die, Ring!Idle, Ring!memory, Ring!provider, Ring!consumer, ringOthers
<1>2. SlotsAreWhole' BY <1>1 DEF Frames, SlotsAreWhole, Whole
<1>3. GoesOn BY <1>1 DEF Frames, SlotsAreWhole, GoesOn
<1>4. WriterIsAhead' BY <1>1 DEF Frames, WriterIsAhead
<1> QED BY <1>1, <1>2, <1>3, <1>4, ReadersLast DEF ringOthers

\* A new host: whoever reads has no mapping any more, and no BufferRef is of it.
LEMMA CreateKeeps == ASSUME Frames, Ring!Create PROVE Frames'
<1>1. /\ ~up /\ maps = {} /\ up' = TRUE /\ host' = host + 1 /\ slot' = -1
      /\ seq' = [s \in Ring!Slot |-> 0] /\ hdr' = [s \in Ring!Slot |-> 0]
      /\ lo' = [s \in Ring!Slot |-> 0] /\ hi' = [s \in Ring!Slot |-> 0]
      /\ w' = w /\ UNCHANGED ringOthers
  BY DEF Ring!Create, Ring!provider, Ring!consumer, ringOthers
<1>2. Even(0) /\ 0 \in Nat BY DEF Even
<1>3. SlotsAreWhole' BY <1>1, <1>2 DEF Frames, SlotsAreWhole, Whole
<1>4. WriterIsAhead' BY <1>1, <1>2 DEF Frames, WriterIsAhead
<1>5. \A r : Refers(r) => Refers(r)' BY <1>1 DEF Refers, Frames, SlotsAreWhole
<1>6. ref' # None => Refers(ref)' BY <1>1, <1>5 DEF Frames, ringOthers
<1>7. p.pc = "idle" /\ c.pc \in {"idle", "open"} BY <1>1 DEF Frames, ProviderReads, ReaderReads
<1>8. ProviderReads' BY <1>1, <1>7 DEF ProviderReads, ringOthers
<1>9. ReaderReads' BY <1>1, <1>5, <1>7 DEF Frames, ReaderReads, ringOthers
<1>10. Ring!AcceptedIsReferenced' BY <1>1 DEF Frames, Ring!AcceptedIsReferenced, ringOthers
<1> QED BY <1>3, <1>4, <1>6, <1>8, <1>9, <1>10 DEF Frames

\* The Provider and the reader leave the slots and the host as they are.
ringHost == <<up, host, seq, hdr, lo, hi, slot, frame, w>>

LEMMA HostStands ==
  ASSUME Frames, UNCHANGED ringHost
  PROVE  SlotsAreWhole' /\ WriterIsAhead'
<1>1. SlotsAreWhole' BY DEF Frames, SlotsAreWhole, ringHost, Whole
<1>2. WriterIsAhead' BY DEF Frames, WriterIsAhead, ringHost, Writing
<1> QED BY <1>1, <1>2

\* A step of the Provider, which may take the mapping and publish a BufferRef.
LEMMA ProviderKeeps ==
  ASSUME Frames, UNCHANGED ringHost, UNCHANGED <<c, payload>>,
         maps' \in {maps, maps \cup {"provider"}, maps \ {"provider"}},
         ProviderReads', ref' = ref \/ Refers(ref)'
  PROVE  Frames'
<1>1. ref' # None => Refers(ref)' BY DEF Frames, ringHost, Refers
<1>2. ReaderReads' BY DEF Frames, ReaderReads, ringHost, Refers
<1>3. Ring!AcceptedIsReferenced' BY DEF Frames, Ring!AcceptedIsReferenced
<1> QED BY <1>1, <1>2, <1>3, HostStands DEF Frames

\* One that goes on reading.
LEMMA ProviderGoesOn ==
  ASSUME Frames, UNCHANGED ringHost, UNCHANGED <<c, payload, maps, ref>>, ProviderReads'
  PROVE  Frames'
BY ProviderKeeps

LEMMA OpenKeeps == ASSUME Frames, Ring!Open PROVE Frames'
<1>1. UNCHANGED ringHost /\ UNCHANGED <<p, ref, c, payload>> /\ maps' = maps \cup {"provider"}
  BY DEF Ring!Open, Ring!host, Ring!memory, Ring!provider, Ring!consumer, ringHost
<1>2. ProviderReads' BY <1>1 DEF Frames, ProviderReads, ringHost
<1> QED BY <1>1, <1>2, ProviderKeeps

LEMMA CloseKeeps == ASSUME Frames, Ring!Close PROVE Frames'
<1>1. /\ UNCHANGED ringHost /\ UNCHANGED <<ref, c, payload>>
      /\ maps' = maps \ {"provider"} /\ p' = [pc |-> "idle"]
  BY DEF Ring!Close, Ring!Idle, Ring!host, Ring!memory, Ring!consumer, ringHost
<1>2. ProviderReads' BY <1>1 DEF ProviderReads
<1> QED BY <1>1, <1>2, ProviderKeeps

LEMMA FindStreamKeeps == ASSUME Frames, Ring!FindStream PROVE Frames'
<1>1. /\ UNCHANGED ringHost /\ UNCHANGED <<ref, c, payload, maps>> /\ "provider" \in maps
      /\ slot >= 0 /\ p' = [pc |-> "before", slot |-> slot]
  BY DEF Ring!FindStream, Ring!P, Ring!host, Ring!memory, Ring!consumer, ringHost
<1>2. slot \in Ring!Slot BY <1>1 DEF Frames, SlotsAreWhole
<1>3. ProviderReads' BY <1>1, <1>2 DEF ProviderReads
<1> QED BY <1>1, <1>3, ProviderGoesOn

LEMMA SequenceBeforeKeeps == ASSUME Frames, Ring!SequenceBefore PROVE Frames'
<1>1. /\ UNCHANGED ringHost /\ UNCHANGED <<ref, c, payload, maps>> /\ p.pc = "before"
      /\ \/ p' = [pc |-> "idle"]
         \/ seq[p.slot] % 2 # 1 /\ p' = [pc |-> "header", slot |-> p.slot, gen |-> seq[p.slot]]
  BY DEF Ring!SequenceBefore, Ring!P, Ring!Idle, Ring!host, Ring!memory, Ring!consumer, ringHost
<1>2. "provider" \in maps /\ p.slot \in Ring!Slot BY <1>1 DEF Frames, ProviderReads
<1>3. seq[p.slot] \in Nat BY <1>2 DEF Frames, SlotsAreWhole
<1>4. seq[p.slot] % 2 # 1 => Even(seq[p.slot]) BY <1>3 DEF Even
<1>5. ProviderReads' BY <1>1, <1>2, <1>3, <1>4 DEF ProviderReads, ringHost
<1> QED BY <1>1, <1>5, ProviderGoesOn

LEMMA ReadHeaderKeeps == ASSUME Frames, Ring!ReadHeader PROVE Frames'
<1>1. /\ UNCHANGED ringHost /\ UNCHANGED <<ref, c, payload, maps>> /\ p.pc = "header"
      /\ p' = [pc |-> "after", slot |-> p.slot, gen |-> p.gen, frame |-> hdr[p.slot]]
  BY DEF Ring!ReadHeader, Ring!P, Ring!host, Ring!memory, Ring!consumer, ringHost
<1>2. ProviderReads' BY <1>1 DEF Frames, ProviderReads, ringHost
<1> QED BY <1>1, <1>2, ProviderGoesOn

LEMMA SequenceAfterKeeps == ASSUME Frames, Ring!SequenceAfter PROVE Frames'
<1>1. /\ UNCHANGED ringHost /\ UNCHANGED <<ref, c, payload, maps>> /\ p.pc = "after"
      /\ p' = [pc |-> "idle"] \/ p' = [p EXCEPT !.pc = "made"]
  BY DEF Ring!SequenceAfter, Ring!P, Ring!Idle, Ring!host, Ring!memory, Ring!consumer, ringHost
<1>2. p' = [p EXCEPT !.pc = "made"] =>
        /\ p'.pc \in {p.pc, "made"} /\ p'.slot = p.slot /\ p'.gen = p.gen /\ p'.frame = p.frame
  OBVIOUS
<1>3. ProviderReads' BY <1>1, <1>2 DEF Frames, ProviderReads, ringHost
<1> QED BY <1>1, <1>3, ProviderGoesOn

\* The BufferRef published is of the host that runs, whose mapping is open.
LEMMA PublishKeeps == ASSUME Frames, Ring!Publish PROVE Frames'
<1> DEFINE r == [slot |-> p.slot, gen |-> p.gen, frame |-> p.frame, boot |-> host]
<1>1. /\ UNCHANGED ringHost /\ UNCHANGED <<c, payload, maps>> /\ p.pc = "made"
      /\ p' = [pc |-> "idle"] /\ ref' \in {ref, r}
  BY DEF Ring!Publish, Ring!P, Ring!Idle, Ring!host, Ring!memory, Ring!consumer, ringHost
<1>2. ref' = r => Refers(ref)'
  BY <1>1 DEF Frames, SlotsAreWhole, ProviderReads, Refers, ringHost
<1>3. ProviderReads' BY <1>1 DEF ProviderReads
<1> QED BY <1>1, <1>2, <1>3, ProviderKeeps

\* A step of the reader.
LEMMA ReaderKeeps ==
  ASSUME Frames, UNCHANGED ringHost, UNCHANGED <<p, ref>>,
         maps' \in {maps, maps \cup {"consumer"}, maps \ {"consumer"}},
         ReaderReads', Ring!AcceptedIsReferenced'
  PROVE  Frames'
<1>1. ref' # None => Refers(ref)' BY DEF Frames, ringHost, Refers
<1>2. ProviderReads' BY DEF Frames, ProviderReads, ringHost
<1> QED BY <1>1, <1>2, HostStands DEF Frames

\* One that goes on reading.
LEMMA ReaderGoesOn ==
  ASSUME Frames, UNCHANGED ringHost, UNCHANGED <<p, ref, payload>>,
         maps' \in {maps, maps \cup {"consumer"}, maps \ {"consumer"}}, ReaderReads'
  PROVE  Frames'
<1>1. Ring!AcceptedIsReferenced' BY DEF Frames, Ring!AcceptedIsReferenced
<1> QED BY <1>1, ReaderKeeps

LEMMA TakeKeeps == ASSUME Frames, Ring!Take PROVE Frames'
<1>1. /\ UNCHANGED ringHost /\ UNCHANGED <<p, ref, payload, maps>>
      /\ ref # None /\ c' = [pc |-> "open", ref |-> ref]
  BY DEF Ring!Take, Ring!host, Ring!memory, Ring!provider, ringHost
<1>2. Refers(ref) BY <1>1 DEF Frames
<1>3. ReaderReads' BY <1>1, <1>2 DEF ReaderReads, Refers, ringHost
<1> QED BY <1>1, <1>3, ReaderGoesOn

LEMMA OpenRefKeeps == ASSUME Frames, Ring!OpenRef PROVE Frames'
<1>1. /\ UNCHANGED ringHost /\ UNCHANGED <<p, ref, payload>> /\ c.pc = "open"
      /\ \/ maps' = maps \cup {"consumer"} /\ c' = [c EXCEPT !.pc = "before"]
         \/ maps' = maps /\ c' = [pc |-> "idle"]
  BY DEF Ring!OpenRef, Ring!Idle, Ring!host, Ring!memory, Ring!provider, ringHost
<1>2. c' = [c EXCEPT !.pc = "before"] => c'.pc \in {c.pc, "before"} /\ c'.ref = c.ref
  OBVIOUS
<1>3. ReaderReads' BY <1>1, <1>2 DEF Frames, ReaderReads, Refers, ringHost
<1> QED BY <1>1, <1>3, ReaderGoesOn

LEMMA ExpiredKeeps == ASSUME Frames, Ring!Expired PROVE Frames'
<1>1. /\ UNCHANGED ringHost /\ UNCHANGED <<p, ref, payload>>
      /\ maps' = maps \ {"consumer"} /\ c' = [pc |-> "idle"]
  BY DEF Ring!Expired, Ring!C, Ring!Idle, Ring!host, Ring!memory, Ring!provider, ringHost
<1>2. ReaderReads' BY <1>1 DEF ReaderReads
<1> QED BY <1>1, <1>2, ReaderGoesOn

LEMMA GenerationBeforeKeeps == ASSUME Frames, Ring!GenerationBefore PROVE Frames'
<1>1. /\ UNCHANGED ringHost /\ UNCHANGED <<p, ref, payload, maps>> /\ c.pc = "before"
      /\ seq[c.ref.slot] = c.ref.gen /\ c' = [c EXCEPT !.pc = "low"]
  BY DEF Ring!GenerationBefore, Ring!Recycled, Ring!C, Ring!host, Ring!memory, Ring!provider, ringHost
<1>2. c'.pc \in {c.pc, "low"} /\ c'.ref = c.ref BY <1>1
<1>3. ReaderReads' BY <1>1, <1>2 DEF Frames, ReaderReads, Refers, ringHost
<1> QED BY <1>1, <1>3, ReaderGoesOn

LEMMA CopyLowKeeps == ASSUME Frames, Ring!CopyLow PROVE Frames'
<1>1. /\ UNCHANGED ringHost /\ UNCHANGED <<p, ref, payload, maps>> /\ c.pc = "low"
      /\ c' = [pc |-> "high", ref |-> c.ref, lo |-> lo[c.ref.slot]]
  BY DEF Ring!CopyLow, Ring!C, Ring!host, Ring!memory, Ring!provider, ringHost
<1>2. ReaderReads' BY <1>1 DEF Frames, ReaderReads, Refers, ringHost
<1> QED BY <1>1, <1>2, ReaderGoesOn

LEMMA CopyHighKeeps == ASSUME Frames, Ring!CopyHigh PROVE Frames'
<1>1. /\ UNCHANGED ringHost /\ UNCHANGED <<p, ref, payload, maps>> /\ c.pc = "high"
      /\ c' = [pc |-> "after", ref |-> c.ref, lo |-> c.lo, hi |-> hi[c.ref.slot]]
  BY DEF Ring!CopyHigh, Ring!C, Ring!host, Ring!memory, Ring!provider, ringHost
<1>2. ReaderReads' BY <1>1 DEF Frames, ReaderReads, Refers, ringHost
<1> QED BY <1>1, <1>2, ReaderGoesOn

\* A payload is accepted whose slot has still the sequence of its BufferRef.
LEMMA GenerationAfterKeeps == ASSUME Frames, Ring!GenerationAfter PROVE Frames'
<1>1. UNCHANGED ringHost /\ UNCHANGED <<p, ref>> /\ c.pc = "after"
  BY DEF Ring!GenerationAfter, Ring!C, Ring!host, Ring!memory, Ring!provider, ringHost
<1>2. CASE Ring!SameAfter
  <2>1. /\ payload' = [ref |-> c.ref, lo |-> c.lo, hi |-> c.hi, boot |-> host]
        /\ c' = [pc |-> "idle"] /\ maps' = maps \ {"consumer"} /\ seq[c.ref.slot] = c.ref.gen
    BY <1>2 DEF Ring!GenerationAfter, Ring!SameAfter, Ring!Idle
  <2>2. c.lo = lo[c.ref.slot] /\ c.hi = hi[c.ref.slot] /\ Refers(c.ref)
    BY <1>1, <2>1 DEF Frames, ReaderReads
  <2>3. Whole(c.ref.slot) BY <2>1, <2>2 DEF Frames, SlotsAreWhole, Refers
  <2>4. Ring!AcceptedIsReferenced'
    BY <2>1, <2>2, <2>3 DEF Ring!AcceptedIsReferenced, Whole, Refers
  <2>5. ReaderReads' BY <2>1 DEF ReaderReads
  <2> QED BY <1>1, <2>1, <2>4, <2>5, ReaderKeeps
<1>3. CASE ~Ring!SameAfter
  <2>1. UNCHANGED <<payload, maps>> /\ c' = [pc |-> "before", ref |-> c.ref]
    BY <1>3 DEF Ring!GenerationAfter
  <2>2. ReaderReads' BY <1>1, <2>1 DEF Frames, ReaderReads, Refers, ringHost
  <2> QED BY <1>1, <2>1, <2>2, ReaderGoesOn
<1> QED BY <1>2, <1>3

LEMMA FramesKeep == Frames /\ [Ring!Next]_(Ring!vars) => Frames'
<1> SUFFICES ASSUME Frames, [Ring!Next]_(Ring!vars) PROVE Frames' OBVIOUS
<1>1. CASE UNCHANGED Ring!vars
  <2>1. UNCHANGED ringHost /\ UNCHANGED <<p, ref, c, payload, maps>> BY <1>1 DEF Ring!vars, ringHost
  <2>2. ProviderReads' BY <2>1 DEF Frames, ProviderReads, ringHost
  <2> QED BY <2>1, <2>2, ProviderGoesOn
<1>2. CASE Ring!Next
  BY <1>2, BeginKeeps, HeaderKeeps, LowKeeps, HighKeeps, CommitKeeps, PointKeeps, DieKeeps,
     CreateKeeps, OpenKeeps, CloseKeeps, FindStreamKeeps, SequenceBeforeKeeps, ReadHeaderKeeps,
     SequenceAfterKeeps, PublishKeeps, TakeKeeps, OpenRefKeeps, ExpiredKeeps,
     GenerationBeforeKeeps, CopyLowKeeps, CopyHighKeeps, GenerationAfterKeeps DEF Ring!Next
<1> QED BY <1>1, <1>2

LEMMA FramesBegin == Ring!Init => Frames
<1> SUFFICES ASSUME Ring!Init PROVE Frames OBVIOUS
<1>1. /\ up /\ host = 1 /\ w.pc = "idle" /\ maps = {} /\ p.pc = "idle" /\ c.pc = "idle"
      /\ ref = None /\ payload = None /\ slot = -1
      /\ seq = [s \in Ring!Slot |-> 0] /\ hdr = [s \in Ring!Slot |-> 0]
      /\ lo = [s \in Ring!Slot |-> 0] /\ hi = [s \in Ring!Slot |-> 0]
  BY DEF Ring!Init, Ring!Zeroed, Ring!Idle
<1>2. Even(0) /\ 0 \in Nat BY DEF Even
<1> QED BY <1>1, <1>2 DEF Frames, SlotsAreWhole, WriterIsAhead, ProviderReads, ReaderReads,
                          Whole, Ring!AcceptedIsReferenced

\* Whatever the host, the Provider and the reader do and whenever a host dies, the
\* newest slot is whole, and so is every payload accepted, which is the frame its
\* BufferRef was made for (SharedMemoryPublisher::publish, latest_ref, read_ref).
THEOREM FramesAreWhole == Ring!Spec => []NoTornFrame
<1>1. Frames => NoTornFrame
  <2> SUFFICES ASSUME Frames PROVE NoTornFrame OBVIOUS
  <2>1. up /\ slot >= 0 => Even(seq[slot]) /\ Whole(slot)
    BY DEF Frames, SlotsAreWhole, WriterIsAhead, Writing
  <2> QED BY <2>1 DEF Frames, NoTornFrame, Ring!LatestIsStable, Even, Whole
<1> QED BY <1>1, FramesBegin, FramesKeep, PTL DEF Ring!Spec

---------------------------------------------------------------------------
(* The workcell calibration.                                                *)

Message == [stamp : Nat, activation : Calibration!Activations, active : BOOLEAN,
            refinement : 0 .. MaxRefinements]
Copies == Calibration!Copies

\* Every variable has its type, the bound on publications left aside, and a request
\* holds what the next of its steps needs.
Call == [at : {"idle", "read", "build", "collect", "sent", "answered"},
         op : {"activate", "refine", "list", "revoke"},
         target : Calibration!Activations \cup {None}, request : Requests \cup {None},
         seen : Calibration!Camera \cup {None}, expected : 0 .. MaxRefinements,
         stamp : Nat, store : Copies]
Equipped(x) ==
  /\ x.at = "read" => /\ x.seen \in Calibration!Camera /\ x.op \in {"refine", "list"}
                      /\ x.op = "refine" => x.target \in Calibration!Activations
  /\ x.at \in {"build", "collect"} => x.op = "activate" /\ x.request \in Requests
  /\ x.at = "collect" => x.seen \in Calibration!Camera /\ x.target \in Calibration!Activations
  /\ x.at \in {"sent", "answered"} => /\ x.op # "list" /\ x.target \in Calibration!Activations
CalibrationTypes ==
  /\ camera \in Calibration!Camera
  /\ records \in Copies
  /\ posted \in Nat /\ inflight \subseteq Message /\ pose \in Message \cup {None}
  /\ handler \in [Handlers -> Call] /\ \A h \in Handlers : Equipped(handler[h])
  /\ deployment \in CalibrationDeployments

\* An activation under way is of a record that nobody has, and a copy under way
\* brings nothing back: it is that new record, or a refined one whose mutex is
\* held, or one that ends.
Activating(h) == handler[h].op = "activate" /\ handler[h].at \in {"collect", "sent", "answered"}
Waiting(h) == handler[h].at \in {"sent", "answered"}
Fits(h, a) ==
  \/ handler[h].op = "activate" /\ a = handler[h].target
  \/ /\ handler[h].op = "refine" /\ a = handler[h].target /\ holder = h
     /\ records[a] # None /\ records[a].state = "ACTIVE"
  \/ records[a] # None /\ handler[h].store[a].state # "ACTIVE"
CopiesFit ==
  /\ \A h \in Handlers : Activating(h) =>
       /\ records[handler[h].target] = None
       /\ \A g \in Handlers : Activating(g) /\ handler[g].target = handler[h].target => g = h
  /\ \A h \in Handlers : Waiting(h) =>
       \A a \in Calibration!Activations : handler[h].store[a] # None => Fits(h, a)

\* Requests that do not overlap: what an activation supersedes are all that are
\* active, and its request id is new.
Superseding(h) ==
  LET x == handler[h] IN
  /\ \A a \in Calibration!Activations : records[a] # None => records[a].request # x.request
  /\ Waiting(h) => /\ x.store[x.target] # None /\ x.store[x.target].request = x.request
                   /\ \A a \in Calibration!ActiveActivations : x.store[a] # None
OneByOne ==
  ~deployment.overlap =>
    /\ \A g, h \in Handlers : handler[g].at # "idle" /\ handler[h].at # "idle" => g = h
    /\ \A a, b \in Calibration!ActiveActivations : a = b
    /\ Calibration!OneActivationPerRequest
    /\ \A h \in Handlers :
         /\ handler[h].op = "activate" /\ handler[h].at # "idle" => Superseding(h)
         /\ Waiting(h) => \A a \in Calibration!Activations :
              handler[h].store[a] # None =>
                \/ handler[h].op = "activate" /\ a = handler[h].target
                \/ handler[h].store[a].request = records[a].request

\* Nor are POSTs lost: the one on its way is that of the request being served, and
\* the edge offered is in force, or is about to be stored.
InForce(m) ==
  /\ records[m.activation] # None
  /\ records[m.activation].state \in {"ACTIVE", "INVALIDATED"}
  /\ records[m.activation].refinement = m.refinement
Announces(m, h) ==
  LET x == handler[h] IN
  /\ m.stamp = x.stamp /\ m.activation = x.target
  /\ m.active => /\ x.store[x.target] # None /\ x.store[x.target].state = "ACTIVE"
                 /\ x.store[x.target].refinement = m.refinement
Prompt == ~deployment.overlap /\ ~deployment.lossy
OfferedInTime ==
  Prompt =>
    /\ pose # None => pose.stamp <= posted
    /\ \A m \in inflight : /\ m.stamp <= posted /\ (pose # None => m.stamp > pose.stamp)
                           /\ \E h \in Handlers : handler[h].at = "sent" /\ Announces(m, h)
    /\ \A m, n \in inflight : m = n
    /\ \A h \in Handlers : handler[h].at = "answered" => pose # None /\ Announces(pose, h)
    /\ (\A h \in Handlers : handler[h].at # "answered") /\ pose # None /\ pose.active => InForce(pose)

\* The inductive invariant.
Poses == CalibrationTypes /\ CopiesFit /\ OneByOne /\ OfferedInTime

\* A handler h that goes to x, and no other.
Turns(h, x) == handler' = [handler EXCEPT ![h] = x]

\* Records looked at again: none comes or goes, and none returns to force.
Fresher ==
  /\ records' \in Copies
  /\ \A a \in Calibration!Activations :
       /\ records'[a] = None <=> records[a] = None
       /\ records[a] # None =>
            /\ records'[a].request = records[a].request
            /\ records'[a].refinement = records[a].refinement
            /\ records'[a].state = "ACTIVE" => records[a].state = "ACTIVE"
            /\ records[a].state \in {"ACTIVE", "INVALIDATED"} =>
                 records'[a].state \in {"ACTIVE", "INVALIDATED"}

LEMMA RefreshAges ==
  ASSUME NEW r \in Calibration!Activation, NEW cam \in Calibration!Camera
  PROVE  LET s == Calibration!Refresh(r, cam) IN
         /\ s \in Calibration!Activation /\ s # None
         /\ s.request = r.request /\ s.refinement = r.refinement /\ s.camera = r.camera
         /\ s.state \in {r.state, "INVALIDATED"}
         /\ r.state # "ACTIVE" => s.state = r.state
<1> DEFINE Aged(s) == /\ s \in Calibration!Activation /\ s # None
                      /\ s.request = r.request /\ s.refinement = r.refinement /\ s.camera = r.camera
                      /\ s.state \in {r.state, "INVALIDATED"}
                      /\ (r.state # "ACTIVE" => s.state = r.state)
<1>1. \A t \in Calibration!Activation : t # None BY NoneIsNothing
<1>2. CASE r.state # "ACTIVE"
  <2>1. Aged([r EXCEPT !.usable = FALSE]) BY <1>1, <1>2 DEF Calibration!Activation
  <2> QED BY <1>2, <2>1 DEF Calibration!Refresh
<1>3. CASE r.state = "ACTIVE" /\ r.camera # cam.revision
  <2>1. Aged([r EXCEPT !.state = "INVALIDATED", !.usable = FALSE])
    BY <1>1, <1>3 DEF Calibration!Activation
  <2> QED BY <1>3, <2>1 DEF Calibration!Refresh
<1>4. CASE r.state = "ACTIVE" /\ r.camera = cam.revision
  <2>1. cam.healthy \in BOOLEAN BY DEF Calibration!Camera
  <2>2. Aged([r EXCEPT !.usable = cam.healthy]) BY <1>1, <1>4, <2>1 DEF Calibration!Activation
  <2> QED BY <1>4, <2>2 DEF Calibration!Refresh
<1> QED BY <1>2, <1>3, <1>4

LEMMA SameIsFresher ==
  ASSUME Poses, records' = records
  PROVE  Fresher
BY DEF Poses, CalibrationTypes, Fresher

LEMMA Alone ==
  ASSUME Poses, ~deployment.overlap, NEW h \in Handlers,
         handler[h].at # "idle" \/ \A g \in Handlers : handler[g].at = "idle"
  PROVE  \A g \in Handlers : g # h => handler[g].at = "idle"
BY DEF Poses, OneByOne

LEMMA TurnedTypes ==
  ASSUME Poses, NEW h \in Handlers, NEW x \in Call, Equipped(x), Turns(h, x)
  PROVE  /\ handler' \in [Handlers -> Call] /\ \A g \in Handlers : Equipped(handler'[g])
         /\ handler'[h] = x /\ \A g \in Handlers : g # h => handler'[g] = handler[g]
<1>1. handler' \in [Handlers -> Call] BY DEF Poses, CalibrationTypes, Turns
<1>2. handler'[h] = x /\ \A g \in Handlers : g # h => handler'[g] = handler[g]
  BY DEF Poses, CalibrationTypes, Turns
<1> QED BY <1>1, <1>2 DEF Poses, CalibrationTypes

\* Copies of the others still fit, whatever h holds.
LEMMA OthersFit ==
  ASSUME Poses, NEW h \in Handlers, NEW x \in Call, Equipped(x), Turns(h, x), Fresher,
         records' = records \/ holder = None, holder' = holder \/ holder \in {None, h},
         Activating(h)' => /\ records'[x.target] = None
                           /\ \A g \in Handlers : g # h /\ Activating(g) => handler[g].target # x.target,
         Waiting(h)' => \A a \in Calibration!Activations : x.store[a] # None => Fits(h, a)'
  PROVE  CopiesFit'
<1>1. handler'[h] = x /\ \A g \in Handlers : g # h => handler'[g] = handler[g] BY TurnedTypes
<1>2. ASSUME NEW g \in Handlers, Activating(g)'
      PROVE  /\ records'[handler'[g].target] = None
             /\ \A f \in Handlers : Activating(f)' /\ handler'[f].target = handler'[g].target => f = g
  <2>1. CASE g = h BY <1>1, <1>2, <2>1 DEF Activating
  <2>2. CASE g # h
    <3>1. Activating(g) /\ handler'[g] = handler[g] BY <1>1, <1>2, <2>2 DEF Activating
    <3>2. handler[g].target \in Calibration!Activations
      BY <3>1 DEF Activating, Poses, CalibrationTypes, Equipped
    <3> QED BY <1>1, <2>2, <3>1, <3>2 DEF Poses, CopiesFit, Activating, Fresher
  <2> QED BY <2>1, <2>2
<1>3. ASSUME NEW g \in Handlers, Waiting(g)', NEW a \in Calibration!Activations, handler'[g].store[a] # None
      PROVE  Fits(g, a)'
  <2>1. CASE g = h BY <1>1, <1>3, <2>1
  <2>2. CASE g # h
    <3>1. Waiting(g) /\ handler'[g] = handler[g] BY <1>1, <1>3, <2>2 DEF Waiting
    <3>2. Fits(g, a) BY <1>3, <3>1 DEF Poses, CopiesFit
    <3>3. holder = g => records' = records /\ holder' = holder BY <2>2, NoneIsNothing
    <3> QED BY <3>1, <3>2, <3>3 DEF Fits, Fresher
  <2> QED BY <2>1, <2>2
<1> QED BY <1>2, <1>3 DEF CopiesFit

\* Nor do requests come to overlap.
LEMMA OthersRest ==
  ASSUME Poses, NEW h \in Handlers, NEW x \in Call, Equipped(x), Turns(h, x), Fresher,
         deployment' = deployment,
         deployment.overlap \/ handler[h].at # "idle" \/ \A g \in Handlers : handler[g].at = "idle",
         ~deployment.overlap =>
           /\ x.op = "activate" /\ x.at # "idle" => Superseding(h)'
           /\ Waiting(h)' => \A a \in Calibration!Activations :
                x.store[a] # None => \/ x.op = "activate" /\ a = x.target
                                     \/ x.store[a].request = records'[a].request
  PROVE  OneByOne'
<1> SUFFICES ASSUME ~deployment.overlap PROVE OneByOne' BY DEF OneByOne
<1>1. handler'[h] = x /\ \A g \in Handlers : g # h => handler'[g] = handler[g] BY TurnedTypes
<1>2. \A g \in Handlers : g # h => handler'[g].at = "idle" BY <1>1, Alone
<1>3. \A a \in Calibration!ActiveActivations' : a \in Calibration!ActiveActivations
  BY DEF Fresher, Calibration!ActiveActivations
<1>4. \A a, b \in Calibration!ActiveActivations' : a = b BY <1>3 DEF Poses, OneByOne
<1>5. Calibration!OneActivationPerRequest'
  BY DEF Fresher, Poses, OneByOne, Calibration!OneActivationPerRequest
<1> QED BY <1>1, <1>2, <1>4, <1>5 DEF OneByOne, Waiting


\* What was offered and is in force is so afterwards.
LEMMA ForceStays ==
  ASSUME Poses, Fresher, NEW m \in Message, m.active, InForce(m)
  PROVE  InForce(m)'
BY DEF Fresher, InForce, Message

\* A step of a request that posts nothing.
LEMMA QuietKeeps ==
  ASSUME Poses, NEW h \in Handlers, NEW x \in Call, Equipped(x), Turns(h, x), Fresher,
         x.at \in {"idle", "read", "build", "collect"},
         ~Waiting(h) \/ deployment.lossy,
         deployment.overlap \/ handler[h].at # "idle" \/ \A g \in Handlers : handler[g].at = "idle",
         records' = records \/ holder = None, holder' = holder \/ holder \in {None, h},
         x.op = "activate" /\ x.at = "collect" =>
           /\ records'[x.target] = None
           /\ \A g \in Handlers : g # h /\ Activating(g) => handler[g].target # x.target,
         ~deployment.overlap /\ x.op = "activate" /\ x.at # "idle" => \A a \in Calibration!Activations :
           records[a] # None => records[a].request # x.request,
         UNCHANGED <<camera, posted, inflight, pose, deployment>>
  PROVE  Poses'
<1>1. handler'[h] = x /\ \A g \in Handlers : g # h => handler'[g] = handler[g] BY TurnedTypes
<1>2. ~Waiting(h)' BY <1>1 DEF Waiting
<1>3. CalibrationTypes' BY TurnedTypes DEF Poses, CalibrationTypes, Fresher
<1>4. CopiesFit'
  <2>1. Activating(h)' => /\ records'[x.target] = None
                          /\ \A g \in Handlers : g # h /\ Activating(g) => handler[g].target # x.target
    BY <1>1 DEF Activating
  <2> QED BY <1>2, <2>1, OthersFit
<1>5. OneByOne'
  <2>1. ~deployment.overlap /\ x.op = "activate" /\ x.at # "idle" => Superseding(h)'
    BY <1>1, <1>2 DEF Superseding, Fresher
  <2> QED BY <1>2, <2>1, OthersRest
<1>6. OfferedInTime'
  <2> SUFFICES ASSUME Prompt PROVE OfferedInTime' BY DEF OfferedInTime, Prompt
  <2>1. ~Waiting(h) BY DEF Prompt
  <2>2. \A m \in inflight : \E g \in Handlers : handler'[g].at = "sent" /\ Announces(m, g)'
    BY <1>1, <2>1 DEF Poses, OfferedInTime, Announces, Waiting
  <2>3. \A g \in Handlers : handler'[g].at = "answered" => g # h /\ handler[g].at = "answered"
    BY <1>1
  <2>4. \A g \in Handlers : handler'[g].at = "answered" => pose # None /\ Announces(pose, g)'
    BY <1>1, <2>3 DEF Poses, OfferedInTime, Announces
  <2>5. (\A g \in Handlers : handler'[g].at # "answered") => \A g \in Handlers : handler[g].at # "answered"
    BY <1>1, <2>1 DEF Waiting
  <2>6. (\A g \in Handlers : handler'[g].at # "answered") /\ pose # None /\ pose.active => InForce(pose)'
    BY <2>5, ForceStays DEF Poses, OfferedInTime, CalibrationTypes
  <2> QED BY <2>2, <2>4, <2>6 DEF Poses, OfferedInTime, InForce, Announces
<1> QED BY <1>3, <1>4, <1>5, <1>6 DEF Poses

\* A step of a request that posts.
LEMMA PostKeeps ==
  ASSUME Poses, NEW h \in Handlers, NEW x \in Call, Equipped(x), Turns(h, x), Fresher,
         NEW m \in Message, m.stamp = posted + 1, posted' = posted + 1,
         inflight' = inflight \cup {m},
         x.at = "sent", ~Waiting(h), holder = None, holder' \in {None, h}, Announces(m, h)',
         deployment.overlap \/ handler[h].at # "idle" \/ \A g \in Handlers : handler[g].at = "idle",
         x.op = "activate" =>
           /\ records'[x.target] = None
           /\ \A g \in Handlers : g # h /\ Activating(g) => handler[g].target # x.target,
         \A a \in Calibration!Activations : x.store[a] # None => Fits(h, a)',
         ~deployment.overlap =>
           /\ x.op = "activate" => Superseding(h)'
           /\ \A a \in Calibration!Activations :
                x.store[a] # None => \/ x.op = "activate" /\ a = x.target
                                     \/ x.store[a].request = records'[a].request,
         UNCHANGED <<camera, pose, deployment>>
  PROVE  Poses'
<1>1. handler'[h] = x /\ \A g \in Handlers : g # h => handler'[g] = handler[g] BY TurnedTypes
<1>3. CalibrationTypes' BY TurnedTypes DEF Poses, CalibrationTypes, Fresher
<1>4. CopiesFit'
  <2>1. Activating(h)' => /\ records'[x.target] = None
                          /\ \A g \in Handlers : g # h /\ Activating(g) => handler[g].target # x.target
    BY <1>1 DEF Activating
  <2> QED BY <2>1, OthersFit
<1>5. OneByOne' BY OthersRest
<1>6. OfferedInTime'
  <2> SUFFICES ASSUME Prompt PROVE OfferedInTime' BY DEF OfferedInTime, Prompt
  <2>1. \A g \in Handlers : g # h => handler[g].at = "idle" BY Alone DEF Prompt
  <2>2. inflight = {} BY <2>1 DEF Poses, OfferedInTime, Waiting
  <2>3. \A g \in Handlers : handler[g].at # "answered" /\ handler'[g].at # "answered"
    BY <1>1, <2>1 DEF Waiting
  <2>4. pose # None => pose.stamp <= posted /\ pose.stamp \in Nat /\ pose \in Message
    BY DEF Poses, OfferedInTime, CalibrationTypes, Message
  <2>5. posted \in Nat BY DEF Poses, CalibrationTypes
  <2>6. pose # None /\ pose.active => InForce(pose)'
    BY <2>3, <2>4, ForceStays DEF Poses, OfferedInTime
  <2>7. inflight' = {m} BY <2>2
  <2>8. pose # None => pose.stamp <= posted + 1 /\ m.stamp > pose.stamp BY <2>4, <2>5
  <2>9. m.stamp <= posted' BY <2>5
  <2>10. handler'[h].at = "sent" BY <1>1
  <2>11. pose' # None => pose'.stamp <= posted' BY <2>8
  <2>12. \A n \in inflight' : /\ n.stamp <= posted' /\ (pose' # None => n.stamp > pose'.stamp)
                              /\ \E g \in Handlers : handler'[g].at = "sent" /\ Announces(n, g)'
    BY <2>7, <2>8, <2>9, <2>10
  <2>13. \A n, k \in inflight' : n = k BY <2>7
  <2>14. pose' # None /\ pose'.active => InForce(pose)' BY <2>6
  <2> HIDE DEF Announces, InForce
  <2> QED BY <2>3, <2>11, <2>12, <2>13, <2>14 DEF OfferedInTime, Announces, InForce
<1> QED BY <1>3, <1>4, <1>5, <1>6 DEF Poses

\* Records looked at again against a camera, some or all of them.
LEMMA RefreshedIsFresher ==
  ASSUME Poses, NEW cam \in Calibration!Camera, DOMAIN records' = Calibration!Activations,
         records' = [a \in Calibration!Activations |-> records'[a]],
         \A a \in Calibration!Activations :
           \/ records'[a] = records[a]
           \/ records[a] # None /\ records'[a] = Calibration!Refresh(records[a], cam)
  PROVE  Fresher
<1>1. ASSUME NEW a \in Calibration!Activations, records'[a] # records[a]
      PROVE  /\ records[a] # None /\ records[a] \in Calibration!Activation
             /\ records'[a] \in Calibration!Activation /\ records'[a] # None
             /\ records'[a].request = records[a].request
             /\ records'[a].refinement = records[a].refinement
             /\ records'[a].state \in {records[a].state, "INVALIDATED"}
             /\ (records[a].state # "ACTIVE" => records'[a].state = records[a].state)
  <2>1. records[a] \in Calibration!Activation
    BY <1>1 DEF Poses, CalibrationTypes, Copies, Calibration!Copies
  <2> QED BY <1>1, <2>1, RefreshAges
<1>2. records \in [Calibration!Activations -> Calibration!Activation \cup {None}]
  BY DEF Poses, CalibrationTypes, Copies, Calibration!Copies
<1>3. records' \in [Calibration!Activations -> Calibration!Activation \cup {None}]
  BY <1>1, <1>2
<1> QED BY <1>1, <1>3 DEF Fresher, Copies, Calibration!Copies

LEMMA IdleCall ==
  /\ Calibration!Idle \in Call /\ Equipped(Calibration!Idle)
  /\ Calibration!Idle.at = "idle" /\ Calibration!Idle.op = "list"
  /\ Calibration!Nothing \in Copies
<1>1. Calibration!Nothing \in Copies BY DEF Calibration!Nothing, Copies, Calibration!Copies
<1>2. 0 \in 0 .. MaxRefinements BY CalibrationBounds
<1> QED BY <1>1, <1>2 DEF Calibration!Idle, Call, Equipped

\* A request comes to nothing.
LEMMA EndKeeps ==
  ASSUME Poses, NEW h \in Handlers, Turns(h, Calibration!Idle), Fresher,
         handler[h].at # "idle", ~Waiting(h) \/ deployment.lossy,
         records' = records \/ holder = None, holder' = holder \/ holder \in {None, h},
         UNCHANGED <<camera, posted, inflight, pose, deployment>>
  PROVE  Poses'
BY IdleCall, QuietKeeps

LEMMA AdmitActivateKeeps ==
  ASSUME Poses, NEW h \in Handlers, NEW r \in Requests, Calibration!AdmitActivate(h, r)
  PROVE  Poses'
<1> DEFINE x == [Calibration!Idle EXCEPT !.at = "build", !.op = "activate", !.request = r]
<1>1. x \in Call /\ Equipped(x) /\ x.at = "build" /\ x.op = "activate" /\ x.request = r
  BY IdleCall DEF Calibration!Idle, Call, Equipped
<1>2. Turns(h, x) BY DEF Calibration!AdmitActivate, Turns
<1>3. Fresher BY SameIsFresher DEF Calibration!AdmitActivate
<1>4. /\ ~Waiting(h)
      /\ deployment.overlap \/ \A g \in Handlers : handler[g].at = "idle"
      /\ \A a \in Calibration!Activations : records[a] # None => records[a].request # r
      /\ UNCHANGED <<camera, records, holder, posted, inflight, pose, deployment>>
  BY DEF Calibration!AdmitActivate, Calibration!Room, Waiting
<1> HIDE DEF x
<1> QED BY <1>1, <1>2, <1>3, <1>4, QuietKeeps

LEMMA BuildKeeps ==
  ASSUME Poses, NEW h \in Handlers, Calibration!Build(h)
  PROVE  Poses'
<1>1. PICK a \in Calibration!Activations :
        /\ Calibration!Fresh(a)
        /\ handler' = [handler EXCEPT ![h].at = "collect", ![h].target = a, ![h].seen = camera]
  BY DEF Calibration!Build
<1> DEFINE x == [handler[h] EXCEPT !.at = "collect", !.target = a, !.seen = camera]
<1>2. /\ handler[h] \in Call /\ Equipped(handler[h]) /\ handler[h].at = "build"
      /\ camera \in Calibration!Camera
  BY DEF Poses, CalibrationTypes, Calibration!Build
<1>3. x \in Call /\ Equipped(x) BY <1>2 DEF Call, Equipped
<1>4. x.at = "collect" /\ x.op = "activate" /\ x.target = a /\ x.request = handler[h].request
  BY <1>2 DEF Call, Equipped
<1>5. Turns(h, x) BY <1>1 DEF Turns, Poses, CalibrationTypes
<1>6. Fresher BY SameIsFresher DEF Calibration!Build
<1>7. records[a] = None /\ \A g \in Handlers : handler[g].target # a BY <1>1 DEF Calibration!Fresh
<1>8. UNCHANGED <<camera, records, holder, posted, inflight, pose, deployment>>
  BY DEF Calibration!Build
<1>9. ~deployment.overlap => \A b \in Calibration!Activations :
        records[b] # None => records[b].request # x.request
  BY <1>2, <1>4 DEF Poses, OneByOne, Superseding, Call, Equipped
<1>10. ~Waiting(h) /\ handler[h].at # "idle" BY <1>2 DEF Waiting
<1> HIDE DEF x
<1> QED BY <1>3, <1>4, <1>5, <1>6, <1>7, <1>8, <1>9, <1>10, QuietKeeps

LEMMA ReadCameraKeeps ==
  ASSUME Poses, NEW h \in Handlers, NEW a \in Calibration!Activations,
         NEW op \in {"refine", "list"}, NEW n \in 0 .. MaxRefinements,
         Calibration!ReadCamera(h, op, a, n)
  PROVE  Poses'
<1> DEFINE x == [Calibration!Idle EXCEPT !.at = "read", !.op = op,
                   !.target = IF op = "refine" THEN a ELSE None,
                   !.seen = camera, !.expected = IF op = "refine" THEN n ELSE 0]
<1>0. camera \in Calibration!Camera BY DEF Poses, CalibrationTypes
<1>1. x \in Call /\ Equipped(x) /\ x.at = "read" /\ x.op = op
  BY <1>0, IdleCall DEF Calibration!Idle, Call, Equipped
<1>2. Turns(h, x) BY DEF Calibration!ReadCamera, Turns
<1>3. Fresher BY SameIsFresher DEF Calibration!ReadCamera
<1>4. /\ ~Waiting(h)
      /\ deployment.overlap \/ \A g \in Handlers : handler[g].at = "idle"
      /\ UNCHANGED <<camera, records, holder, posted, inflight, pose, deployment>>
  BY DEF Calibration!ReadCamera, Calibration!Room, Waiting
<1> HIDE DEF x
<1> QED BY <1>1, <1>2, <1>3, <1>4, QuietKeeps

LEMMA ListKeeps ==
  ASSUME Poses, NEW h \in Handlers, Calibration!List(h)
  PROVE  Poses' /\ Fresher
<1>1. handler[h].seen \in Calibration!Camera
  BY DEF Poses, CalibrationTypes, Equipped, Calibration!List
<1>2. Fresher BY <1>1, RefreshedIsFresher DEF Calibration!List
<1> QED BY <1>2, EndKeeps DEF Calibration!List, Calibration!Unlocked, Turns, Waiting

LEMMA RefuseRefinementKeeps ==
  ASSUME Poses, NEW h \in Handlers, Calibration!RefuseRefinement(h)
  PROVE  Poses' /\ Fresher
<1>1. handler[h].seen \in Calibration!Camera /\ handler[h].target \in Calibration!Activations
  BY DEF Poses, CalibrationTypes, Equipped, Calibration!RefuseRefinement, Calibration!Refining
<1>2. records \in [Calibration!Activations -> Calibration!Activation \cup {None}]
  BY DEF Poses, CalibrationTypes, Copies, Calibration!Copies
<1>3. /\ records' = [a \in Calibration!Activations |-> records'[a]]
      /\ \A a \in Calibration!Activations :
           \/ records'[a] = records[a]
           \/ records[a] # None /\ records'[a] = Calibration!Refresh(records[a], handler[h].seen)
  BY <1>1, <1>2 DEF Calibration!RefuseRefinement
<1>4. Fresher BY <1>1, <1>3, RefreshedIsFresher
<1> QED BY <1>4, EndKeeps DEF Calibration!RefuseRefinement, Calibration!Refining,
                                 Calibration!Unlocked, Turns, Waiting

LEMMA GiveUpKeeps ==
  ASSUME Poses, NEW h \in Handlers, Calibration!GiveUp(h)
  PROVE  Poses'
<1>1. Fresher BY SameIsFresher DEF Calibration!GiveUp
<1>2. holder' = holder \/ holder = h BY DEF Calibration!GiveUp, Calibration!Released
<1> QED BY <1>1, <1>2, EndKeeps DEF Calibration!GiveUp, Turns, Waiting

LEMMA RefuseActivationKeeps ==
  ASSUME Poses, NEW h \in Handlers, Calibration!RefuseActivation(h)
  PROVE  Poses'
<1>1. Fresher BY SameIsFresher DEF Calibration!RefuseActivation
<1> QED BY <1>1, EndKeeps DEF Calibration!RefuseActivation, Turns, Waiting

LEMMA CollectKeeps ==
  ASSUME Poses, NEW h \in Handlers, Calibration!Collect(h)
  PROVE  Poses'
<1> DEFINE t == handler[h].target
           copy == [state |-> "ACTIVE", usable |-> TRUE, request |-> handler[h].request,
                    camera |-> handler[h].seen.revision, refinement |-> 0]
           store == [a \in Calibration!Activations |->
                      CASE a = t -> copy
                        [] a \in Calibration!ActiveActivations ->
                             [records[a] EXCEPT !.state = "SUPERSEDED", !.usable = FALSE]
                        [] OTHER -> None]
           n == posted + 1
           x == [handler[h] EXCEPT !.at = "sent", !.stamp = n, !.store = store]
<1>1. /\ handler[h] \in Call /\ Equipped(handler[h]) /\ handler[h].at = "collect"
      /\ handler[h].op = "activate" /\ t \in Calibration!Activations
      /\ handler[h].request \in Requests /\ handler[h].seen \in Calibration!Camera
      /\ posted \in Nat /\ holder = None
  BY DEF Poses, CalibrationTypes, Equipped, Calibration!Collect, Calibration!Unlocked
<1>2. 0 \in 0 .. MaxRefinements BY CalibrationBounds
<1>3. copy \in Calibration!Activation /\ copy # None
  <2>1. handler[h].seen.revision \in 1 .. MaxCamera BY <1>1 DEF Calibration!Camera
  <2>2. copy \in Calibration!Activation BY <1>1, <1>2, <2>1 DEF Calibration!Activation
  <2> HIDE DEF copy
  <2> QED BY <2>2, NoneIsNothing
<1>0. copy.state = "ACTIVE" /\ copy.refinement = 0 /\ copy.request = handler[h].request OBVIOUS
<1> HIDE DEF copy
<1>22. n \in Nat BY <1>1
<1>23. PICK m \in Message : m = [stamp |-> n, activation |-> t, active |-> TRUE, refinement |-> 0]
  <2> HIDE DEF n
  <2> QED BY <1>1, <1>2, <1>22 DEF Message
<1>4. ASSUME NEW a \in Calibration!ActiveActivations
      PROVE  LET s == [records[a] EXCEPT !.state = "SUPERSEDED", !.usable = FALSE] IN
             /\ records[a] # None /\ s \in Calibration!Activation /\ s # None
             /\ s.state # "ACTIVE" /\ s.request = records[a].request
  <2>1. records[a] \in Calibration!Activation /\ records[a] # None
    BY DEF Poses, CalibrationTypes, Copies, Calibration!Copies, Calibration!ActiveActivations
  <2>2. [records[a] EXCEPT !.state = "SUPERSEDED", !.usable = FALSE] \in Calibration!Activation
    BY <2>1 DEF Calibration!Activation
  <2> QED BY <2>1, <2>2, NoneIsNothing DEF Calibration!Activation
<1>5. store \in Copies BY <1>3, <1>4 DEF Copies, Calibration!Copies
<1>6. store[t] = copy
  <2>1. t \notin Calibration!ActiveActivations
    BY <1>1 DEF Poses, CopiesFit, Activating, Calibration!ActiveActivations
  <2> QED BY <1>1, <2>1
<1>7. \A a \in Calibration!Activations : a # t /\ store[a] # None =>
        /\ records[a] # None /\ store[a].state # "ACTIVE" /\ store[a].request = records[a].request
  BY <1>4
<1>8. \A a \in Calibration!ActiveActivations : store[a] # None
  BY <1>3, <1>4 DEF Calibration!ActiveActivations
<1>9. /\ handler' = [handler EXCEPT ![h].at = "sent", ![h].stamp = n, ![h].store = store]
      /\ posted' = n /\ inflight' = inflight \cup {m}
      /\ UNCHANGED <<camera, records, holder, pose, deployment>>
  BY <1>23 DEF Calibration!Collect, Calibration!Post, copy
<1> HIDE DEF store, n
<1>10. x \in Call /\ Equipped(x) BY <1>1, <1>5, <1>22 DEF Call, Equipped
<1>11. /\ x.at = "sent" /\ x.op = "activate" /\ x.target = t /\ x.store = store
       /\ x.stamp = n /\ x.request = handler[h].request
  BY <1>1 DEF Call, Equipped
<1>12. Turns(h, x) BY <1>9 DEF Turns, Poses, CalibrationTypes
<1>13. m.stamp = posted + 1 BY <1>23 DEF n
<1> HIDE DEF x
<1>14. handler'[h] = x BY <1>10, <1>12, TurnedTypes
<1>15. Announces(m, h)' BY <1>0, <1>3, <1>6, <1>11, <1>14, <1>23 DEF Announces
<1>16. Fresher BY <1>9, SameIsFresher
<1>17. /\ records'[x.target] = None
       /\ \A g \in Handlers : g # h /\ Activating(g) => handler[g].target # x.target
  BY <1>1, <1>9, <1>11 DEF Poses, CopiesFit, Activating
<1>18. \A a \in Calibration!Activations : x.store[a] # None => Fits(h, a)'
  BY <1>7, <1>9, <1>11, <1>14 DEF Fits
<1>19. ~deployment.overlap => Superseding(h)'
  <2>1. ~deployment.overlap => \A a \in Calibration!Activations :
          records[a] # None => records[a].request # handler[h].request
    BY <1>1 DEF Poses, OneByOne, Superseding
  <2>2. Calibration!ActiveActivations' = Calibration!ActiveActivations
    BY <1>9 DEF Calibration!ActiveActivations
  <2> QED BY <1>0, <1>3, <1>6, <1>8, <1>9, <1>11, <1>14, <2>1, <2>2 DEF Superseding
<1>20. \A a \in Calibration!Activations : x.store[a] # None =>
         \/ x.op = "activate" /\ a = x.target
         \/ x.store[a].request = records'[a].request
  BY <1>7, <1>9, <1>11
<1>21. ~Waiting(h) /\ handler[h].at # "idle" BY <1>1 DEF Waiting
<1>24. posted' = posted + 1 BY <1>9 DEF n
<1> HIDE DEF t
<1> QED BY <1>1, <1>9, <1>10, <1>11, <1>12, <1>13, <1>15, <1>16, <1>17, <1>18, <1>19, <1>20,
           <1>21, <1>24, PostKeeps

LEMMA RevokeKeeps ==
  ASSUME Poses, NEW h \in Handlers, NEW a \in Calibration!Activations, Calibration!Revoke(h, a)
  PROVE  Poses'
<1> DEFINE copy == [records[a] EXCEPT !.state = "REVOKED", !.usable = FALSE]
           store == [Calibration!Nothing EXCEPT ![a] = copy]
           n == posted + 1
           x == [Calibration!Idle EXCEPT !.at = "sent", !.op = "revoke", !.target = a,
                                         !.stamp = n, !.store = store]
<1>1. records[a] \in Calibration!Activation /\ records[a] # None /\ posted \in Nat /\ holder = None
  BY DEF Poses, CalibrationTypes, Copies, Calibration!Copies, Calibration!Revoke, Calibration!Unlocked
<1>2. copy \in Calibration!Activation /\ copy.state # "ACTIVE" /\ copy.request = records[a].request
  BY <1>1 DEF Calibration!Activation
<1>3. store \in Copies BY <1>2, IdleCall DEF Copies, Calibration!Copies
<1>4. \A b \in Calibration!Activations : store[b] # None => b = a /\ store[b] = copy
  BY DEF Calibration!Nothing
<1>15. n \in Nat BY <1>1
<1>16. PICK m \in Message : m = [stamp |-> n, activation |-> a, active |-> FALSE,
                                 refinement |-> records[a].refinement]
  <2> HIDE DEF n
  <2> QED BY <1>1, <1>15 DEF Message, Calibration!Activation
<1>5. /\ handler' = [handler EXCEPT ![h] = x]
      /\ posted' = n /\ inflight' = inflight \cup {m}
      /\ ~Waiting(h) /\ (deployment.overlap \/ \A g \in Handlers : handler[g].at = "idle")
      /\ UNCHANGED <<camera, records, holder, pose, deployment>>
  BY <1>16 DEF Calibration!Revoke, Calibration!Post, Calibration!Room, Waiting
<1> HIDE DEF store, n
<1>6. x \in Call /\ Equipped(x) BY <1>1, <1>3, <1>15, IdleCall DEF Calibration!Idle, Call, Equipped
<1>7. x.at = "sent" /\ x.op = "revoke" /\ x.target = a /\ x.store = store /\ x.stamp = n
  BY DEF Calibration!Idle
<1>8. m.stamp = n /\ ~m.active /\ m.activation = a BY <1>16
<1>9. Turns(h, x) BY <1>5 DEF Turns
<1> HIDE DEF x, copy
<1>10. handler'[h] = x BY <1>6, <1>9, TurnedTypes
<1>11. Announces(m, h)' BY <1>7, <1>8, <1>10 DEF Announces
<1>12. Fresher BY <1>5, SameIsFresher
<1>13. \A b \in Calibration!Activations : x.store[b] # None => Fits(h, b)'
  BY <1>1, <1>2, <1>4, <1>5, <1>7, <1>10 DEF Fits
<1>14. \A b \in Calibration!Activations : x.store[b] # None => x.store[b].request = records'[b].request
  BY <1>2, <1>4, <1>5, <1>7
<1>17. posted' = posted + 1 /\ m.stamp = posted + 1 BY <1>5, <1>8 DEF n
<1> QED BY <1>1, <1>5, <1>6, <1>7, <1>9, <1>11, <1>12, <1>13, <1>14, <1>17, PostKeeps

LEMMA RefineKeeps ==
  ASSUME Poses, NEW h \in Handlers, Calibration!Refine(h)
  PROVE  Poses' /\ Fresher
<1> DEFINE a == handler[h].target
           r == Calibration!Refresh(records[a], handler[h].seen)
           copy == [r EXCEPT !.refinement = @ + 1]
           store == [Calibration!Nothing EXCEPT ![a] = copy]
           n == posted + 1
           x == [handler[h] EXCEPT !.at = "sent", !.stamp = n, !.store = store]
<1>1. /\ handler[h] \in Call /\ Equipped(handler[h]) /\ handler[h].at = "read"
      /\ handler[h].op = "refine" /\ a \in Calibration!Activations
      /\ handler[h].seen \in Calibration!Camera /\ posted \in Nat /\ holder = None
  BY DEF Poses, CalibrationTypes, Equipped, Calibration!Refine, Calibration!Refining,
         Calibration!Unlocked
<1>2. /\ records[a] # None /\ Calibration!Refinable(h, r)
      /\ records' = [records EXCEPT ![a] = r]
      /\ handler' = [handler EXCEPT ![h].at = "sent", ![h].stamp = n, ![h].store = store]
      /\ posted' = n /\ holder' = h
      /\ inflight' = inflight \cup {[stamp |-> n, activation |-> a, active |-> TRUE,
                                     refinement |-> r.refinement + 1]}
      /\ UNCHANGED <<camera, pose, deployment>>
  BY DEF Calibration!Refine, Calibration!Post
<1>3. records[a] \in Calibration!Activation
  BY <1>1, <1>2 DEF Poses, CalibrationTypes, Copies, Calibration!Copies
<1>4. records \in [Calibration!Activations -> Calibration!Activation \cup {None}]
  BY DEF Poses, CalibrationTypes, Copies, Calibration!Copies
<1>5. Fresher BY <1>1, <1>2, <1>4, RefreshedIsFresher
<1>6. r \in Calibration!Activation /\ r # None BY <1>1, <1>3, RefreshAges
<1>7. r.state = "ACTIVE" /\ r.refinement < MaxRefinements BY <1>2 DEF Calibration!Refinable
<1> HIDE DEF r
<1>8. /\ copy \in Calibration!Activation /\ copy.state = "ACTIVE" /\ copy.request = r.request
      /\ copy.refinement = r.refinement + 1 /\ copy # None
  BY <1>6, <1>7, CalibrationBounds, NoneIsNothing DEF Calibration!Activation
<1>21. n \in Nat BY <1>1
<1>22. PICK m \in Message : m = [stamp |-> n, activation |-> a, active |-> TRUE,
                                 refinement |-> r.refinement + 1]
  <2>1. r.refinement + 1 \in 0 .. MaxRefinements
    BY <1>6, <1>7, CalibrationBounds DEF Calibration!Activation
  <2> HIDE DEF n
  <2> QED BY <1>1, <1>21, <2>1 DEF Message
<1> HIDE DEF copy, n
<1>9. store \in Copies BY <1>8, IdleCall DEF Copies, Calibration!Copies
<1>10. /\ store[a] = copy
       /\ \A b \in Calibration!Activations : store[b] # None => b = a
  BY <1>1 DEF Calibration!Nothing
<1> HIDE DEF store
<1>11. x \in Call /\ Equipped(x) BY <1>1, <1>9, <1>21 DEF Call, Equipped
<1>12. x.at = "sent" /\ x.op = "refine" /\ x.target = a /\ x.store = store /\ x.stamp = n
  BY <1>1 DEF Call
<1>13. Turns(h, x) BY <1>2 DEF Turns, Poses, CalibrationTypes
<1>14. m.stamp = posted + 1 /\ posted' = posted + 1 BY <1>2, <1>22 DEF n
<1> HIDE DEF x
<1>15. handler'[h] = x BY <1>11, <1>13, TurnedTypes
<1>16. Announces(m, h)' BY <1>8, <1>10, <1>12, <1>15, <1>22 DEF Announces
<1>17. records'[a] = r BY <1>1, <1>2, <1>4
<1>18. \A b \in Calibration!Activations : x.store[b] # None => Fits(h, b)'
  BY <1>2, <1>6, <1>7, <1>10, <1>12, <1>15, <1>17 DEF Fits
<1>19. \A b \in Calibration!Activations : x.store[b] # None => x.store[b].request = records'[b].request
  BY <1>8, <1>10, <1>12, <1>17
<1>20. ~Waiting(h) /\ handler[h].at # "idle" BY <1>1 DEF Waiting
<1>23. inflight' = inflight \cup {m} BY <1>2, <1>22
<1> HIDE DEF a
<1> QED BY <1>1, <1>2, <1>23, <1>5, <1>11, <1>12, <1>13, <1>14, <1>16, <1>18, <1>19, <1>20, PostKeeps

\* The Fabric takes a POST.
LEMMA PostTakenKeeps ==
  ASSUME Poses, NEW m \in Message, m \in inflight, Calibration!Take(m)
  PROVE  Poses'
<1>1. /\ m \in Message /\ inflight \subseteq Message /\ pose \in Message \cup {None}
      /\ handler \in [Handlers -> Call] /\ \A g \in Handlers : Equipped(handler[g])
      /\ posted \in Nat
  BY DEF Poses, CalibrationTypes
<1>2. /\ inflight' = inflight \ {m}
      /\ pose' = IF pose = None \/ m.stamp > pose.stamp THEN m ELSE pose
      /\ UNCHANGED <<camera, records, holder, posted, deployment>>
  BY DEF Calibration!Take
<1>3. PICK heard \in (IF deployment.lossy THEN BOOLEAN ELSE {TRUE}) :
        handler' = [g \in Handlers |->
          IF heard /\ handler[g].at = "sent" /\ handler[g].stamp = m.stamp
          THEN [handler[g] EXCEPT !.at = "answered"] ELSE handler[g]]
  BY DEF Calibration!Take
<1>4. ASSUME NEW g \in Handlers
      PROVE  /\ handler'[g] \in Call /\ Equipped(handler'[g])
             /\ handler'[g].op = handler[g].op /\ handler'[g].target = handler[g].target
             /\ handler'[g].request = handler[g].request /\ handler'[g].store = handler[g].store
             /\ handler'[g].stamp = handler[g].stamp
             /\ handler'[g].at = handler[g].at \/
                (handler[g].at = "sent" /\ handler'[g].at = "answered" /\ handler[g].stamp = m.stamp)
  <2>1. handler[g] \in Call /\ Equipped(handler[g]) BY <1>1
  <2>2. CASE heard /\ handler[g].at = "sent" /\ handler[g].stamp = m.stamp
    <3>1. handler'[g] = [handler[g] EXCEPT !.at = "answered"] BY <1>3, <2>2
    <3> QED BY <2>1, <2>2, <3>1 DEF Call, Equipped
  <2>3. CASE ~(heard /\ handler[g].at = "sent" /\ handler[g].stamp = m.stamp)
    <3>1. handler'[g] = handler[g] BY <1>3, <2>3
    <3> QED BY <2>1, <3>1
  <2> QED BY <2>2, <2>3
<1>5. CalibrationTypes'
  <2>1. handler' \in [Handlers -> Call] BY <1>3, <1>4
  <2> QED BY <1>1, <1>2, <1>4, <2>1 DEF Poses, CalibrationTypes
<1>6. \A g \in Handlers : /\ Activating(g)' <=> Activating(g)
                          /\ Waiting(g)' <=> Waiting(g)
                          /\ handler'[g].at = "idle" <=> handler[g].at = "idle"
  BY <1>4 DEF Activating, Waiting
<1>7. CopiesFit' BY <1>2, <1>4, <1>6 DEF Poses, CopiesFit, Fits
<1>8. OneByOne'
  <2> SUFFICES ASSUME ~deployment.overlap PROVE OneByOne' BY <1>2 DEF OneByOne
  <2>1. /\ Calibration!ActiveActivations' = Calibration!ActiveActivations
        /\ Calibration!OneActivationPerRequest' <=> Calibration!OneActivationPerRequest
    BY <1>2 DEF Calibration!ActiveActivations, Calibration!OneActivationPerRequest
  <2>2. \A g \in Handlers : Superseding(g) => Superseding(g)'
    BY <1>2, <1>4, <1>6, <2>1 DEF Superseding
  <2> QED BY <1>2, <1>4, <1>6, <2>1, <2>2 DEF Poses, OneByOne
<1>9. OfferedInTime'
  <2> SUFFICES ASSUME Prompt PROVE OfferedInTime' BY <1>2 DEF OfferedInTime, Prompt
  <2>1. PICK h \in Handlers : handler[h].at = "sent" /\ Announces(m, h)
    BY DEF Poses, OfferedInTime
  <2>2. \A g \in Handlers : g # h => handler[g].at = "idle" BY <2>1, Alone DEF Prompt
  <2>3. inflight' = {} BY <1>2 DEF Poses, OfferedInTime
  <2>4. pose' = m BY <1>2 DEF Poses, OfferedInTime
  <2>5. m.stamp <= posted BY DEF Poses, OfferedInTime
  <2>6. handler'[h].at = "answered" BY <1>3, <2>1 DEF Announces, Prompt
  <2>7. Announces(pose, h)' BY <1>4, <2>1, <2>4 DEF Announces
  <2>8. m # None
    <3>1. m \in [stamp : Nat, activation : Nat, active : BOOLEAN, refinement : Nat]
      BY CalibrationBounds DEF Message, Calibration!Activations
    <3> QED BY <3>1, NoneIsNothing
  <2> QED BY <1>2, <1>4, <2>2, <2>3, <2>4, <2>5, <2>6, <2>7, <2>8 DEF OfferedInTime
<1> QED BY <1>5, <1>7, <1>8, <1>9 DEF Poses

\* The state of the requests, and of the records, is what it was.
LEMMA StillKeeps ==
  ASSUME Poses, camera' \in Calibration!Camera, inflight' = inflight \/ deployment.lossy,
         inflight' \subseteq inflight,
         UNCHANGED <<records, holder, posted, pose, handler, deployment>>
  PROVE  Poses'
<1>1. CalibrationTypes' BY DEF Poses, CalibrationTypes
<1>2. CopiesFit' BY DEF Poses, CopiesFit, Activating, Waiting, Fits
<1>3. OneByOne'
  BY DEF Poses, OneByOne, Superseding, Waiting, Calibration!ActiveActivations,
         Calibration!OneActivationPerRequest
<1>4. OfferedInTime' BY DEF Poses, OfferedInTime, Prompt, Announces, InForce
<1> QED BY <1>1, <1>2, <1>3, <1>4 DEF Poses

\* What a request stores is what fits.
LEMMA StoreKeeps ==
  ASSUME Poses, NEW h \in Handlers, Calibration!Store(h)
  PROVE  /\ Poses'
         /\ \A a \in Calibration!Activations :
              records[a] # None /\ records[a].state # "ACTIVE" => records'[a].state # "ACTIVE"
<1> DEFINE x == handler[h]
<1>1. /\ handler \in [Handlers -> Call] /\ records \in Copies /\ x \in Call /\ Equipped(x)
      /\ x.at = "answered" /\ Waiting(h) /\ x.store \in Copies
  BY DEF Poses, CalibrationTypes, Calibration!Store, Call, Waiting
<1>2. /\ records' = [a \in Calibration!Activations |->
                       IF x.store[a] # None THEN x.store[a] ELSE records[a]]
      /\ handler' = [handler EXCEPT ![h] = Calibration!Idle]
      /\ holder \in {None, h} /\ holder' = None
      /\ UNCHANGED <<camera, posted, inflight, pose, deployment>>
  BY DEF Calibration!Store, Calibration!Released
<1>3. records' \in Copies BY <1>1, <1>2 DEF Copies, Calibration!Copies
<1>4. /\ handler'[h] = Calibration!Idle /\ handler' \in [Handlers -> Call]
      /\ \A g \in Handlers : Equipped(handler'[g]) /\ (g # h => handler'[g] = handler[g])
  BY <1>1, <1>2, IdleCall DEF Poses, CalibrationTypes
<1>5. CalibrationTypes' BY <1>2, <1>3, <1>4 DEF Poses, CalibrationTypes
<1>6. \A a \in Calibration!Activations : x.store[a] # None => Fits(h, a)
  BY <1>1 DEF Poses, CopiesFit
<1>7. x.op = "activate" => Activating(h) /\ records[x.target] = None
  BY <1>1 DEF Activating, Poses, CopiesFit
<1>8. \A g \in Handlers : /\ Activating(g)' => g # h /\ Activating(g)
                          /\ Waiting(g)' => g # h /\ Waiting(g)
  BY <1>4, IdleCall DEF Activating, Waiting
<1>9. CopiesFit'
  <2>1. ASSUME NEW g \in Handlers, Activating(g)'
        PROVE  records'[handler'[g].target] = None
    <3>1. g # h /\ Activating(g) /\ handler'[g] = handler[g] /\ records[handler[g].target] = None
      BY <1>4, <1>8, <2>1 DEF Poses, CopiesFit
    <3>2. handler[g].target \in Calibration!Activations
      BY <3>1 DEF Activating, Poses, CalibrationTypes, Equipped
    <3>3. x.op = "activate" => x.target # handler[g].target
      BY <1>7, <3>1 DEF Poses, CopiesFit
    <3>4. ~Fits(h, handler[g].target) BY <3>1, <3>3 DEF Fits
    <3> QED BY <1>2, <1>6, <3>1, <3>2, <3>4
  <2>2. ASSUME NEW g \in Handlers, Waiting(g)', NEW a \in Calibration!Activations,
               handler'[g].store[a] # None
        PROVE  Fits(g, a)'
    <3>1. g # h /\ Waiting(g) /\ handler'[g] = handler[g] BY <1>4, <1>8, <2>2
    <3>2. Fits(g, a) BY <2>2, <3>1 DEF Poses, CopiesFit
    <3>3. holder # g BY <1>2, <3>1, NoneIsNothing
    <3>4. records[a] # None => records'[a] # None BY <1>2
    <3> QED BY <3>1, <3>2, <3>3, <3>4 DEF Fits
  <2>3. ASSUME NEW f \in Handlers, NEW g \in Handlers, Activating(f)', Activating(g)',
               handler'[g].target = handler'[f].target
        PROVE  g = f
    <3>1. Activating(f) /\ Activating(g) /\ handler[g].target = handler[f].target
      BY <1>4, <1>8, <2>3
    <3> QED BY <3>1 DEF Poses, CopiesFit
  <2> QED BY <2>1, <2>2, <2>3 DEF CopiesFit
<1>10. \A a \in Calibration!Activations :
         records[a] # None /\ records[a].state # "ACTIVE" => records'[a].state # "ACTIVE"
  BY <1>2, <1>6, <1>7 DEF Fits
<1>11. OneByOne'
  <2> SUFFICES ASSUME ~deployment.overlap PROVE OneByOne' BY <1>2 DEF OneByOne
  <2>1. \A g \in Handlers : handler'[g].at = "idle"
    <3>1. \A g \in Handlers : g # h => handler[g].at = "idle" BY <1>1, Alone
    <3> QED BY <1>4, <3>1, IdleCall
  <2>2. x.op = "activate" => Superseding(h) BY <1>1 DEF Poses, OneByOne
  <2>3. x.target \in Calibration!Activations BY <1>1 DEF Equipped
  <2>4. \A a \in Calibration!Activations : x.store[a] # None /\ ~(x.op = "activate" /\ a = x.target) =>
          records[a] # None /\ records'[a].request = records[a].request
    BY <1>1, <1>2, <1>6 DEF Poses, OneByOne, Fits
  <2>5. CASE x.op = "activate"
    <3>1. /\ records'[x.target] = x.store[x.target] /\ records'[x.target].request = x.request
      BY <1>1, <1>2, <2>2, <2>3, <2>5 DEF Superseding
    <3>2. \A a \in Calibration!Activations : a # x.target /\ records'[a] # None =>
            /\ records[a] # None /\ records'[a].request = records[a].request
            /\ records'[a].state # "ACTIVE"
      <4>1. \A a \in Calibration!Activations : a # x.target /\ records'[a] # None => records[a] # None
        BY <1>2, <2>4
      <4>2. \A a \in Calibration!Activations : a # x.target /\ records'[a] # None =>
              records'[a].request = records[a].request
        BY <1>2, <2>4
      <4>3. \A a \in Calibration!Activations : a # x.target /\ records'[a] # None =>
              records'[a].state # "ACTIVE"
        BY <1>1, <1>2, <1>6, <2>2, <2>5 DEF Superseding, Fits, Calibration!ActiveActivations
      <4> QED BY <4>1, <4>2, <4>3
    <3>3. \A a \in Calibration!ActiveActivations' : a = x.target
      BY <3>2 DEF Calibration!ActiveActivations
    <3>4. Calibration!OneActivationPerRequest'
      BY <2>2, <2>5, <3>1, <3>2
         DEF Poses, OneByOne, Superseding, Calibration!OneActivationPerRequest
    <3> QED BY <2>1, <3>3, <3>4 DEF OneByOne, Waiting
  <2>6. CASE x.op # "activate"
    <3>1. \A a \in Calibration!Activations : records'[a] # None =>
            records[a] # None /\ records'[a].request = records[a].request
      BY <1>2, <2>4, <2>6
    <3>2. \A a \in Calibration!ActiveActivations' : a \in Calibration!ActiveActivations
      BY <1>10, <3>1 DEF Calibration!ActiveActivations
    <3>3. Calibration!OneActivationPerRequest'
      BY <3>1 DEF Poses, OneByOne, Calibration!OneActivationPerRequest
    <3>4. \A a, b \in Calibration!ActiveActivations' : a = b BY <3>2 DEF Poses, OneByOne
    <3> QED BY <2>1, <3>3, <3>4 DEF OneByOne, Waiting
  <2> QED BY <2>5, <2>6
<1>12. OfferedInTime'
  <2> SUFFICES ASSUME Prompt PROVE OfferedInTime' BY <1>2 DEF OfferedInTime, Prompt
  <2>1. \A g \in Handlers : g # h => handler[g].at = "idle" BY <1>1, Alone DEF Prompt
  <2>2. inflight = {} BY <1>1, <2>1 DEF Poses, OfferedInTime
  <2>3. pose # None /\ Announces(pose, h) /\ pose.stamp <= posted
    BY <1>1 DEF Poses, OfferedInTime
  <2>4. x.target \in Calibration!Activations BY <1>1 DEF Equipped
  <2>5. pose.active => InForce(pose)' BY <1>2, <2>3, <2>4 DEF Announces, InForce
  <2>6. \A g \in Handlers : handler'[g].at = "idle" BY <1>4, <2>1, IdleCall
  <2> QED BY <1>2, <2>2, <2>3, <2>5, <2>6 DEF OfferedInTime, InForce
<1> QED BY <1>5, <1>9, <1>10, <1>11, <1>12 DEF Poses

LEMMA LoseKeeps ==
  ASSUME Poses, NEW m \in Message, Calibration!Lose(m)
  PROVE  Poses'
BY StillKeeps DEF Calibration!Lose, Poses, CalibrationTypes

LEMMA CameraKeeps ==
  ASSUME Poses, Calibration!CameraHealth \/ Calibration!CameraRecalibrated
  PROVE  Poses'
<1>1. camera \in Calibration!Camera BY DEF Poses, CalibrationTypes
<1>2. CASE Calibration!CameraHealth
  <2>1. camera' \in Calibration!Camera BY <1>1, <1>2 DEF Calibration!CameraHealth, Calibration!Camera
  <2> QED BY <1>2, <2>1, StillKeeps DEF Calibration!CameraHealth
<1>3. CASE Calibration!CameraRecalibrated
  <2>1. camera' \in Calibration!Camera
    BY <1>1, <1>3, CalibrationBounds DEF Calibration!CameraRecalibrated, Calibration!Camera
  <2> QED BY <1>3, <2>1, StillKeeps DEF Calibration!CameraRecalibrated
<1> QED BY <1>2, <1>3

LEMMA PosesInitially == Calibration!Init => Poses
<1> SUFFICES ASSUME Calibration!Init PROVE Poses OBVIOUS
<1>1. /\ camera = [revision |-> 1, healthy |-> TRUE] /\ records = Calibration!Nothing
      /\ posted = 0 /\ inflight = {} /\ pose = None
      /\ handler = [h \in Handlers |-> Calibration!Idle] /\ deployment \in CalibrationDeployments
  BY DEF Calibration!Init
<1>2. \A h \in Handlers : /\ handler[h].at = "idle" /\ handler[h].op = "list"
                          /\ ~Activating(h) /\ ~Waiting(h)
  BY <1>1, IdleCall DEF Activating, Waiting
<1>3. CalibrationTypes
  <2>1. camera \in Calibration!Camera BY <1>1, CalibrationBounds DEF Calibration!Camera
  <2> QED BY <1>1, <2>1, IdleCall DEF CalibrationTypes
<1>4. \A a \in Calibration!Activations : records[a] = None BY <1>1 DEF Calibration!Nothing
<1>5. CopiesFit BY <1>2 DEF CopiesFit
<1>6. OneByOne
  BY <1>2, <1>4 DEF OneByOne, Calibration!ActiveActivations, Calibration!OneActivationPerRequest
<1>7. OfferedInTime BY <1>1, <1>2 DEF OfferedInTime
<1> QED BY <1>3, <1>5, <1>6, <1>7 DEF Poses

LEMMA PosesStep == Poses /\ [Calibration!Next]_Calibration!vars => Poses'
<1> SUFFICES ASSUME Poses, [Calibration!Next]_Calibration!vars PROVE Poses' OBVIOUS
<1>1. CASE UNCHANGED Calibration!vars
  BY <1>1, StillKeeps DEF Calibration!vars, Poses, CalibrationTypes
<1>2. ASSUME NEW h \in Handlers, Calibration!Serve(h) PROVE Poses'
  BY <1>2, BuildKeeps, RefuseActivationKeeps, CollectKeeps, ListKeeps, RefineKeeps,
     RefuseRefinementKeeps, GiveUpKeeps, StoreKeeps DEF Calibration!Serve
<1>3. ASSUME NEW h \in Handlers, NEW r \in Requests, Calibration!AdmitActivate(h, r) PROVE Poses'
  BY <1>3, AdmitActivateKeeps
<1>4. ASSUME NEW h \in Handlers, NEW a \in Calibration!Activations, Calibration!Revoke(h, a)
      PROVE  Poses'
  BY <1>4, RevokeKeeps
<1>5. ASSUME NEW h \in Handlers, NEW a \in Calibration!Activations, NEW op \in {"refine", "list"},
             NEW n \in 0 .. MaxRefinements, Calibration!ReadCamera(h, op, a, n)
      PROVE  Poses'
  BY <1>5, ReadCameraKeeps
<1>6. ASSUME NEW m \in inflight, Calibration!Take(m) \/ Calibration!Lose(m) PROVE Poses'
  BY <1>6, PostTakenKeeps, LoseKeeps DEF Poses, CalibrationTypes
<1>7. CASE Calibration!CameraHealth \/ Calibration!CameraRecalibrated BY <1>7, CameraKeeps
<1> QED BY <1>1, <1>2, <1>3, <1>4, <1>5, <1>6, <1>7 DEF Calibration!Next

LEMMA EndedStep ==
  ASSUME Poses, [Calibration!Next]_Calibration!vars, NEW a \in Calibration!Activations,
         records[a] # None, records[a].state # "ACTIVE"
  PROVE  records'[a].state # "ACTIVE"
<1>1. Fresher => records'[a].state # "ACTIVE" BY DEF Fresher
<1>2. ASSUME records' = records PROVE records'[a].state # "ACTIVE" BY <1>2
<1>3. ASSUME NEW h \in Handlers, Calibration!Serve(h) PROVE records'[a].state # "ACTIVE"
  <2>1. CASE Calibration!Build(h) \/ Calibration!RefuseActivation(h) \/ Calibration!Collect(h)
              \/ Calibration!GiveUp(h)
    BY <1>2, <2>1 DEF Calibration!Build, Calibration!RefuseActivation, Calibration!Collect,
                      Calibration!GiveUp
  <2>2. CASE Calibration!List(h) \/ Calibration!Refine(h) \/ Calibration!RefuseRefinement(h)
    BY <1>1, <2>2, ListKeeps, RefineKeeps, RefuseRefinementKeeps
  <2>3. CASE Calibration!Store(h) BY <2>3, StoreKeeps
  <2> QED BY <1>3, <2>1, <2>2, <2>3 DEF Calibration!Serve
<1>4. CASE Calibration!Next
  <2>1. ASSUME NEW h \in Handlers,
               \/ \E r \in Requests : Calibration!AdmitActivate(h, r)
               \/ \E b \in Calibration!Activations :
                    \/ Calibration!Revoke(h, b)
                    \/ \E op \in {"refine", "list"}, n \in 0 .. MaxRefinements :
                         Calibration!ReadCamera(h, op, b, n)
        PROVE  records' = records
    BY <2>1 DEF Calibration!AdmitActivate, Calibration!Revoke, Calibration!ReadCamera
  <2>2. ASSUME NEW m \in inflight, Calibration!Take(m) \/ Calibration!Lose(m)
        PROVE  records' = records
    BY <2>2 DEF Calibration!Take, Calibration!Lose
  <2>3. Calibration!CameraHealth \/ Calibration!CameraRecalibrated => records' = records
    BY DEF Calibration!CameraHealth, Calibration!CameraRecalibrated
  <2> QED BY <1>2, <1>3, <1>4, <2>1, <2>2, <2>3 DEF Calibration!Next
<1> QED BY <1>2, <1>4 DEF Calibration!vars

LEMMA SingleActivation ==
  ASSUME Poses
  PROVE  ActivationsAreSingle
<1>1. Calibration!OneActive
  <2> SUFFICES ASSUME ~deployment.overlap PROVE Cardinality(Calibration!ActiveActivations) <= 1
    BY Zenon DEF Calibration!OneActive, Calibration!Cardinality, Cardinality
  <2>1. \A a, b \in Calibration!ActiveActivations : a = b BY DEF Poses, OneByOne
  <2>2. CASE Calibration!ActiveActivations = {} BY <2>2, FS_EmptySet
  <2>3. ASSUME NEW a \in Calibration!ActiveActivations
        PROVE  Cardinality(Calibration!ActiveActivations) <= 1
    <3>1. Calibration!ActiveActivations = {a} BY <2>1, <2>3
    <3>2. Cardinality({a}) = 1 BY FS_Singleton
    <3> QED BY <3>1, <3>2
  <2> QED BY <2>2, <2>3
<1>2. Calibration!OneActivationPerRequest
  BY DEF Poses, OneByOne, Calibration!OneActivationPerRequest
<1>3. Calibration!OfferedIsInForce
  BY DEF Poses, OfferedInTime, Prompt, InForce, Calibration!OfferedIsInForce, Calibration!Quiet
<1> QED BY <1>1, <1>2, <1>3 DEF ActivationsAreSingle

\* While requests do not overlap one activation is in force, though answers are lost
\* or late; a retried activation request makes no second one; and what the Fabric
\* offers, while it answers in time, is in force (activate_workcell_calibration,
\* refine_workcell_calibration_translation, revoke_workcell_calibration).
THEOREM OneCalibrationInForce == Calibration!Spec => []ActivationsAreSingle
BY PosesInitially, PosesStep, SingleActivation, PTL DEF Calibration!Spec

\* Whatever two requests do to each other's copies, and whichever answers are lost,
\* an activation that was superseded, revoked or invalidated never is ACTIVE again.
THEOREM EndedCalibrationsStayEnded == Calibration!Spec => EndedStaysEnded
<1>1. Poses /\ [Calibration!Next]_Calibration!vars =>
        [\A a \in Calibration!Activations :
           records[a] # None /\ records[a].state # "ACTIVE"
             => records'[a].state # "ACTIVE"]_Calibration!vars
  BY EndedStep
<1> QED BY <1>1, PosesInitially, PosesStep, PTL
        DEF Calibration!Spec, EndedStaysEnded, Calibration!EndedStaysEnded

---------------------------------------------------------------------------
(* The views of control authority.                                         *)

\* A worker that publishes no more owes no resource, and comes to its last one last;
\* a handler publishes between requests.
Owes(v, r) == r \in ahead[v] \cup last[v]
OwingEnds ==
  /\ \A v \in Workers : /\ stage[v] = "none" => ahead[v] = {} /\ last[v] = {}
                        /\ \A a, b \in last[v] : a = b
  /\ \A h \in Handlers : pc[h] # "idle" => stage[h] = "none"

\* Sequences are those taken so far.
Composing(v) == stage[v] \in {"leases", "generation", "post"}
SequencesAreTaken ==
  /\ \A v \in Workers : Composing(v) => draft[v].sequence <= stamp
  /\ \A r \in Resources : fabric[r].sequence <= stamp /\ lost[r] <= stamp

\* What a view shows was issued for its resource, and is not newer than the
\* generation it shows.
Read(v) == stage[v] \in {"generation", "post"}
Shows(active, r) == \A id \in active : id \in Issued /\ leases[id].resource = r
Covers(view) == \A id \in view.active : leases[id].generation <= view.generation
ViewsAreRead ==
  /\ \A v \in Workers : Read(v) => Shows(draft[v].active, draft[v].resource)
  /\ \A v \in Workers : stage[v] = "post" => Covers(draft[v])
  /\ \A r \in Resources : Shows(fabric[r].active, r) /\ Covers(fabric[r])

\* Of a resource that nobody will stamp again, the view of the greatest sequence is
\* right, once it has been read, unless its POST failed.
Right(active, r) ==
  /\ \A id \in Active(leases) : leases[id].resource = r => id \in active
  /\ \A id \in active : leases[id].state \in {"ACTIVE", "EXPIRED"}
Latest(sequence, r) ==
  /\ \A v \in Workers : Composing(v) /\ draft[v].resource = r => draft[v].sequence <= sequence
  /\ fabric[r].sequence <= sequence /\ lost[r] <= sequence
Settled(r) ==
  /\ \A v \in Workers : Read(v) /\ draft[v].resource = r /\ Latest(draft[v].sequence, r) =>
       Right(draft[v].active, r)
  /\ Latest(fabric[r].sequence, r) => Right(fabric[r].active, r)
LatestIsRight == \A r \in Resources : (\E v \in Workers : Owes(v, r)) \/ Settled(r)

\* The inductive invariant.
Views ==
  AuthorityInv /\ PublicationTypeOK /\ OwingEnds /\ SequencesAreTaken /\ ViewsAreRead /\ LatestIsRight

\* Leases outside `changed` do no more than expire, and nobody's debt is forgotten.
Grows(changed) ==
  /\ \A id \in Issued : /\ id \in Issued'
                        /\ leases'[id].resource = leases[id].resource
                        /\ leases'[id].generation = leases[id].generation
  /\ \A id \in Issued' : \/ leases'[id].resource \in changed
                         \/ id \in Issued /\ leases'[id].state \in {leases[id].state, "EXPIRED"}

LEMMA RightStays ==
  ASSUME NEW changed, Grows(changed), NEW r, r \notin changed, NEW active, Shows(active, r),
         Right(active, r), AuthorityInv, AuthorityInv'
  PROVE  Right(active, r)'
<1>1. ASSUME NEW id \in Active(leases'), leases'[id].resource = r PROVE id \in active
  <2>1. /\ id \in Issued' /\ leases'[id].state = "ACTIVE" BY <1>1 DEF Active, Issued
  <2>2. id \in Issued /\ leases[id].state = "ACTIVE" /\ leases[id].resource = r
    BY <1>1, <2>1 DEF Grows
  <2> QED BY <2>2 DEF Right, Active, Issued
<1>2. ASSUME NEW id \in active PROVE leases'[id].state \in {"ACTIVE", "EXPIRED"}
  BY <1>2 DEF Right, Shows, Grows
<1> QED BY <1>1, <1>2 DEF Right

LEMMA ShowsStays ==
  ASSUME NEW changed, Grows(changed), NEW r, NEW active, Shows(active, r)
  PROVE  Shows(active, r)'
BY DEF Grows, Shows

\* A step on the leases, after which a worker may begin to publish.
LEMMA LeasesMove ==
  ASSUME Views, AuthorityInv', NEW changed, Grows(changed),
         UNCHANGED <<stamp, draft, fabric, lost>>,
         stage' \in [Workers -> {"none", "stamp", "leases", "generation", "post"}],
         ahead' \in [Workers -> SUBSET Resources], last' \in [Workers -> SUBSET Resources],
         \A v \in Workers : stage'[v] = stage[v] \/ (stage'[v] = "stamp" /\ stage[v] = "none"),
         OwingEnds',
         \A r \in Resources : r \in changed \/ (\E v \in Workers : Owes(v, r)) =>
           \E v \in Workers : Owes(v, r)'
  PROVE  Views'
<1>1. \A v \in Workers : /\ Composing(v)' <=> Composing(v)
                         /\ Read(v)' <=> Read(v)
                         /\ stage'[v] = "post" <=> stage[v] = "post"
  BY DEF Composing, Read
<1>2. PublicationTypeOK'
  BY <1>1 DEF Views, PublicationTypeOK, AuthorityInv, Composing, Observation
<1>3. SequencesAreTaken' BY <1>1 DEF Views, SequencesAreTaken
<1>4. ViewsAreRead'
  <2>1. \A v \in Workers : Read(v) => Shows(draft[v].active, draft[v].resource)'
    BY ShowsStays DEF Views, ViewsAreRead
  <2>2. \A r \in Resources : Shows(fabric[r].active, r)'
    BY ShowsStays DEF Views, ViewsAreRead
  <2>3. \A v \in Workers : stage[v] = "post" => Covers(draft[v])'
    BY DEF Views, ViewsAreRead, Covers, Shows, Grows, Read
  <2>4. \A r \in Resources : Covers(fabric[r])'
    BY DEF Views, ViewsAreRead, Covers, Shows, Grows
  <2> QED BY <1>1, <2>1, <2>2, <2>3, <2>4 DEF ViewsAreRead, Shows, Covers
<1>5. LatestIsRight'
  <2> SUFFICES ASSUME NEW r \in Resources, \A v \in Workers : ~Owes(v, r)'
               PROVE  Settled(r)'
    BY DEF LatestIsRight
  <2>1. r \notin changed /\ Settled(r) BY DEF Views, LatestIsRight
  <2>2. \A s : Latest(s, r)' <=> Latest(s, r) BY <1>1 DEF Latest
  <2>3. ASSUME NEW v \in Workers, Read(v)', draft[v].resource = r, Latest(draft[v].sequence, r)
        PROVE  Right(draft[v].active, r)'
    BY <1>1, <2>1, <2>3, RightStays DEF Views, Settled, ViewsAreRead
  <2>4. Latest(fabric[r].sequence, r) => Right(fabric[r].active, r)'
    BY <2>1, RightStays DEF Views, Settled, ViewsAreRead
  <2> QED BY <2>2, <2>3, <2>4 DEF Settled, Right
<1> QED BY <1>2, <1>3, <1>4, <1>5 DEF Views

\* The steps of ControlAuthority that publish nothing.
LEMMA SilentMove ==
  ASSUME Views, AuthorityInv', Grows({}), UNCHANGED publication,
         \A h \in Handlers : pc'[h] # "idle" => pc[h] # "idle" \/ stage[h] = "none"
  PROVE  Views'
<1>1. OwingEnds' BY DEF Views, OwingEnds, publication, Workers
<1>2. \A r \in Resources : (\E v \in Workers : Owes(v, r)) => \E v \in Workers : Owes(v, r)'
  BY DEF Owes, publication
<1>3. /\ UNCHANGED <<stage, ahead, last, stamp, draft, fabric, lost>>
      /\ stage \in [Workers -> {"none", "stamp", "leases", "generation", "post"}]
      /\ ahead \in [Workers -> SUBSET Resources] /\ last \in [Workers -> SUBSET Resources]
  BY DEF publication, Views, PublicationTypeOK
<1> QED BY <1>1, <1>2, <1>3, LeasesMove

\* And those that do.
LEMMA PublishingMove ==
  ASSUME Views, AuthorityInv', NEW v \in Workers, stage[v] = "none",
         NEW before \in SUBSET Resources, NEW own \in SUBSET Resources, \A a, b \in own : a = b,
         Publish(v, before, own), Grows(before \cup own),
         \A h \in Handlers : pc'[h] # "idle" => pc[h] # "idle" /\ h # v
  PROVE  Views'
<1>1. /\ stage' = [stage EXCEPT ![v] = "stamp"] /\ ahead' = [ahead EXCEPT ![v] = before]
      /\ last' = [last EXCEPT ![v] = own] /\ UNCHANGED <<stamp, draft, fabric, lost>>
  BY DEF Publish
<1>2. /\ stage \in [Workers -> {"none", "stamp", "leases", "generation", "post"}]
      /\ ahead \in [Workers -> SUBSET Resources] /\ last \in [Workers -> SUBSET Resources]
  BY DEF Views, PublicationTypeOK
<1>3. /\ stage'[v] = "stamp" /\ ahead'[v] = before /\ last'[v] = own
      /\ \A u \in Workers : u # v => stage'[u] = stage[u] /\ ahead'[u] = ahead[u] /\ last'[u] = last[u]
  BY <1>1, <1>2
<1>4. OwingEnds' BY <1>3 DEF Views, OwingEnds, Workers
<1>5. ASSUME NEW r \in Resources, r \in before \cup own \/ \E u \in Workers : Owes(u, r)
      PROVE  \E u \in Workers : Owes(u, r)'
  <2>1. CASE r \in before \cup own BY <1>3, <2>1 DEF Owes
  <2>2. ASSUME NEW u \in Workers, Owes(u, r) PROVE Owes(u, r)'
    BY <1>3, <2>2 DEF Owes, Views, OwingEnds
  <2> QED BY <1>5, <2>1, <2>2
<1>6. /\ stage' \in [Workers -> {"none", "stamp", "leases", "generation", "post"}]
      /\ ahead' \in [Workers -> SUBSET Resources] /\ last' \in [Workers -> SUBSET Resources]
  BY <1>1, <1>2
<1>7. \A u \in Workers : stage'[u] = stage[u] \/ (stage'[u] = "stamp" /\ stage[u] = "none")
  BY <1>3
<1> QED BY <1>1, <1>4, <1>5, <1>6, <1>7, LeasesMove

LEMMA GrowsMore ==
  ASSUME NEW some, NEW more, Grows(some), some \subseteq more
  PROVE  Grows(more)
BY DEF Grows

LEMMA RetiredGrows ==
  ASSUME TypeOK, NEW changed, Retires(leases'),
         \A id \in Issued : \/ leases[id].resource \in changed
                            \/ leases'[id].state \in {leases[id].state, "EXPIRED"}
  PROVE  Grows(changed)
<1>1. Issued' = Issued BY DEF Retires, Issued
<1> QED BY <1>1 DEF Retires, Grows

LEMMA SweptGrows ==
  ASSUME TypeOK, NEW at \in Nat, leases' = Swept(leases, at)
  PROVE  Grows({}) /\ Issued' = Issued
<1>1. Retires(leases') BY SweepRetires
<1>2. \A id \in Issued : leases'[id].state \in {leases[id].state, "EXPIRED"}
  BY DEF Swept, Lapsed, Active, Issued, TypeOK, Lease
<1> QED BY <1>1, <1>2, RetiredGrows DEF Retires, Issued

LEMMA StandingGrows ==
  ASSUME leases' = leases
  PROVE  Grows({})
BY DEF Grows, Issued

LEMMA ClockKeeps == ASSUME Views, PClock PROVE Views'
<1>1. [Next]_authorityVars /\ leases' = leases /\ pc' = pc /\ UNCHANGED publication
  BY DEF PClock, Next, Tick, RaiseFence
<1> QED BY <1>1, StandingGrows, SilentMove, AuthorityInductive DEF Views

LEMMA ViewKeeps == ASSUME Views, PView PROVE Views'
<1>1. [Next]_authorityVars /\ UNCHANGED publication BY DEF PView, Next
<1>2. TypeOK /\ clock \in Nat /\ leases' = Swept(leases, clock) /\ pc' = pc
  BY DEF Views, AuthorityInv, TypeOK, PView, Sweep
<1> QED BY <1>1, <1>2, SweptGrows, SilentMove, AuthorityInductive DEF Views

LEMMA PSweepKeeps == ASSUME Views, PSweep PROVE Views'
<1> DEFINE before == {leases[id].resource : id \in Lapsed(leases, clock)}
<1>1. [Next]_authorityVars /\ Sweep BY DEF PSweep, Next
<1>2. TypeOK /\ clock \in Nat /\ leases' = Swept(leases, clock)
  BY DEF Views, AuthorityInv, TypeOK, PSweep, Sweep
<1>3. before \in SUBSET Resources BY <1>2 DEF Lapsed, Active, TypeOK, Issued, Lease
<1>4. Sweeper \in Workers /\ stage[Sweeper] = "none" /\ Publish(Sweeper, before, {})
  BY DEF Workers, PSweep
<1>7. \A h \in Handlers : pc'[h] # "idle" => pc[h] # "idle" /\ h # Sweeper
  BY SweeperIsNoHandler DEF PSweep, Sweep
<1> HIDE DEF before
<1>5. Grows(before \cup {}) BY <1>2, SweptGrows, GrowsMore
<1>6. AuthorityInv' BY <1>1, AuthorityInductive DEF Views
<1>8. \A a, b \in {} : a = b OBVIOUS
<1> QED BY <1>3, <1>4, <1>5, <1>6, <1>7, <1>8, PublishingMove

LEMMA RequestKeeps ==
  ASSUME Views, NEW h \in Handlers, PRequest(h)
  PROVE  Views'
<1>1. h \in Workers /\ stage[h] = "none" BY DEF Workers, PRequest
<1>2. Request(h) BY DEF PRequest, Request
<1>3. AuthorityInv' BY <1>2, AuthorityInductive DEF Views, Next
<1>4. CASE /\ UNCHANGED publication
           /\ \/ \E r \in Resources, o \in Owners, p0 \in BOOLEAN, d \in Durations :
                   AdmitAcquire(h, r, o, p0, d)
              \/ \E id \in LeaseIds, o \in Owners, d \in Durations : AdmitRenew(h, id, o, d)
  <2>1. leases' = leases /\ \A g \in Handlers : g # h => pc'[g] = pc[g]
    BY <1>4 DEF AdmitAcquire, AdmitRenew, Admit, Views, AuthorityInv, TypeOK
  <2> QED BY <1>1, <1>3, <1>4, <2>1, StandingGrows, SilentMove
<1>5. ASSUME NEW id \in LeaseIds, NEW o \in Owners, Release(h, id, o),
             Publish(h, {}, {leases[id].resource})
      PROVE  Views'
  <2>1. TypeOK /\ id \in Issued /\ leases[id].resource \in Resources
    BY <1>5 DEF Release, Views, AuthorityInv, TypeOK, Lease
  <2>2. Retires(leases') BY <1>5, <2>1 DEF Release, TypeOK, Issued, Lease, LeaseStates, Retires
  <2>3. \A i \in Issued : leases[i].resource \in {leases[id].resource} \/ leases'[i] = leases[i]
    BY <1>5, <2>1 DEF Release, TypeOK
  <2>4. Grows({leases[id].resource}) BY <2>1, <2>2, <2>3, RetiredGrows
  <2>5. {} \cup {leases[id].resource} = {leases[id].resource} OBVIOUS
  <2>6. \A g \in Handlers : pc'[g] # "idle" => pc[g] # "idle" /\ g # h BY <1>5 DEF Release
  <2> QED BY <1>1, <1>3, <1>5, <2>1, <2>4, <2>5, <2>6, PublishingMove
<1> QED BY <1>4, <1>5 DEF PRequest

LEMMA RefuseKeeps ==
  ASSUME Views, NEW h \in Handlers, PRefuse(h)
  PROVE  Views'
<1>1. RefuseAcquire(h) \/ RefuseRenew(h) BY DEF PRefuse
<1>2. AuthorityInv' BY <1>1, AuthorityInductive DEF Views, Next, AcquireStep, RenewStep
<1>3. TypeOK BY DEF Views, AuthorityInv
<1>4. call[h].at \in Nat /\ leases' = Swept(leases, call[h].at)
  BY <1>1, <1>3 DEF RefuseAcquire, RefuseRenew, Finish, TypeOK, AcquireCall, RenewCall
<1>5. Grows({}) BY <1>3, <1>4, SweptGrows
<1>6. \A g \in Handlers : pc'[g] # "idle" => pc[g] # "idle"
  BY <1>1, <1>3 DEF RefuseAcquire, RefuseRenew, Finish, TypeOK
<1> QED BY <1>2, <1>5, <1>6, SilentMove DEF PRefuse

LEMMA RenewKeeps ==
  ASSUME Views, NEW h \in Handlers, PRenew(h)
  PROVE  Views'
<1> DEFINE x == call[h]
           swept == Swept(leases, x.at)
           own == {leases[x.lease].resource}
<1>1. Renew(h) /\ Publish(h, {}, own) BY DEF PRenew
<1>2. AuthorityInv' BY <1>1, AuthorityInductive DEF Views, Next, RenewStep
<1>3. TypeOK BY DEF Views, AuthorityInv
<1>4. /\ x \in RenewCall /\ x.at \in Nat /\ x.duration \in Nat
  BY <1>1, <1>3, DurationsPositive DEF Renew, TypeOK, RenewCall
<1>5. /\ Retires(swept) /\ DOMAIN swept = Issued /\ swept \in [Issued -> Lease]
      /\ Active(swept) \subseteq Active(leases)
  BY <1>3, <1>4, SweepRetires, SweptFacts
<1>13. \A id \in Issued : swept[id].state \in {leases[id].state, "EXPIRED"}
  BY <1>3 DEF Swept, Lapsed, Active, Issued, TypeOK, Lease
<1>6. /\ leases' = [swept EXCEPT ![x.lease].expires = x.at + x.duration]
      /\ x.lease \in Active(swept)
  BY <1>1 DEF Renew, Finish, Renewable
<1>7. x.lease \in Issued /\ leases[x.lease].state = "ACTIVE" BY <1>5, <1>6 DEF Active, Issued
<1> HIDE DEF swept
<1>8. Retires(leases') BY <1>4, <1>5, <1>6, <1>7 DEF Retires, Lease
<1>9. \A id \in Issued : leases'[id].state = swept[id].state BY <1>5, <1>6 DEF Lease
<1>10. Grows({}) BY <1>3, <1>13, <1>8, <1>9, RetiredGrows
<1>11. own \in SUBSET Resources BY <1>3, <1>7 DEF TypeOK, Lease
<1>12. /\ h \in Workers /\ pc[h] # "idle"
       /\ \A g \in Handlers : pc'[g] # "idle" => pc[g] # "idle" /\ g # h
  BY <1>1, <1>3 DEF Workers, Renew, Finish, TypeOK
<1>14. stage[h] = "none" BY <1>12 DEF Views, OwingEnds
<1>15. \A a, b \in own : a = b OBVIOUS
<1>16. Grows({} \cup own) BY <1>10, GrowsMore
<1> HIDE DEF own
<1> QED BY <1>1, <1>2, <1>11, <1>12, <1>14, <1>15, <1>16, PublishingMove

LEMMA PGrantKeeps ==
  ASSUME Views, NEW h \in Handlers, PGrant(h)
  PROVE  Views'
<1> DEFINE x == call[h]
           swept == Swept(leases, x.at)
           before == {swept[i].resource : i \in Rivals(swept, x.resource)}
           own == {x.resource}
<1>1. PICK id \in LeaseIds : GrantAcquire(h, id) BY DEF PGrant
<1>2. Publish(h, before, own) BY DEF PGrant
<1>3. AuthorityInv' BY <1>1, AuthorityInductive DEF Views, Next, AcquireStep
<1>4. TypeOK BY DEF Views, AuthorityInv
<1>5. /\ x \in AcquireCall /\ x.at \in Nat /\ x.resource \in Resources
      /\ id \notin Issued /\ leases' = Granted(swept, id, x)
  BY <1>1, <1>4 DEF GrantAcquire, Finish, TypeOK, AcquireCall
<1>6. /\ DOMAIN swept = Issued /\ swept \in [Issued -> Lease]
      /\ \A i \in Issued : /\ swept[i].resource = leases[i].resource
                           /\ swept[i].generation = leases[i].generation
  BY <1>4, <1>5, SweptFacts
<1>7. \A i \in Issued : swept[i].state \in {leases[i].state, "EXPIRED"}
  BY <1>4 DEF Swept, Lapsed, Active, Issued, TypeOK, Lease
<1>8. before \in SUBSET Resources BY <1>6 DEF Rivals, Active, Lease
<1> HIDE DEF swept
<1>9. /\ Issued' = Issued \cup {id} /\ leases'[id].resource = x.resource
      /\ \A i \in Issued : leases'[i] = IF i \in Rivals(swept, x.resource)
                                        THEN [swept[i] EXCEPT !.state = "PREEMPTED"] ELSE swept[i]
  BY <1>5, <1>6 DEF Granted, Issued
<1>10. ASSUME NEW i \in Issued
       PROVE  /\ leases'[i].resource = leases[i].resource
              /\ leases'[i].generation = leases[i].generation
              /\ leases'[i].resource \in before \/ leases'[i].state \in {leases[i].state, "EXPIRED"}
  <2>1. CASE i \in Rivals(swept, x.resource) BY <1>6, <1>9, <2>1 DEF Lease
  <2>2. CASE i \notin Rivals(swept, x.resource) BY <1>6, <1>7, <1>9, <2>2
  <2> QED BY <2>1, <2>2
<1>11. Grows(before \cup own) BY <1>9, <1>10 DEF Grows
<1>12. /\ h \in Workers /\ pc[h] # "idle"
       /\ \A g \in Handlers : pc'[g] # "idle" => pc[g] # "idle" /\ g # h
  BY <1>1, <1>4 DEF Workers, GrantAcquire, Finish, TypeOK
<1>13. stage[h] = "none" BY <1>12 DEF Views, OwingEnds
<1>14. own \in SUBSET Resources /\ \A a, b \in own : a = b BY <1>5
<1> HIDE DEF before, own
<1> QED BY <1>2, <1>3, <1>8, <1>11, <1>12, <1>13, <1>14, PublishingMove

\* The steps of a publication leave the leases alone.
LEMMA PublicationStands ==
  ASSUME Views, UNCHANGED authorityVars
  PROVE  /\ AuthorityInv' /\ TypeOK' /\ Issued' = Issued /\ pc' = pc
         /\ \A active, r : /\ Right(active, r)' <=> Right(active, r)
                           /\ Shows(active, r)' <=> Shows(active, r)
         /\ \A view : Covers(view)' <=> Covers(view)
<1>1. AuthorityInv' BY AuthorityInductive DEF Views
<1>2. TypeOK' BY <1>1 DEF AuthorityInv
<1> QED BY <1>1, <1>2 DEF authorityVars, Issued, Right, Shows, Covers, Active

LEMMA PublicationTypes ==
  ASSUME Views
  PROVE  /\ stage \in [Workers -> {"none", "stamp", "leases", "generation", "post"}]
         /\ ahead \in [Workers -> SUBSET Resources] /\ last \in [Workers -> SUBSET Resources]
         /\ stamp \in Nat /\ draft \in [Workers -> Observation \cup {None}]
         /\ fabric \in [Resources -> Observation] /\ lost \in [Resources -> Nat]
         /\ \A v \in Workers : Composing(v) =>
              /\ draft[v] \in Observation /\ draft[v].resource \in Resources
              /\ draft[v].sequence \in Nat
         /\ \A r \in Resources : fabric[r].sequence \in Nat
BY DEF Views, PublicationTypeOK, Composing, Observation

LEMMA StampKeeps ==
  ASSUME Views, NEW v \in Workers, Stamp(v)
  PROVE  Views'
<1>1. PICK r \in Remaining(v) :
        /\ draft' = [draft EXCEPT ![v] = [resource |-> r, sequence |-> stamp + 1,
                                          active |-> {}, generation |-> 0]]
        /\ ahead' = [ahead EXCEPT ![v] = @ \ {r}]
        /\ last' = [last EXCEPT ![v] = IF ahead[v] # {} THEN @ ELSE {}]
  BY DEF Stamp
<1>2. /\ stage[v] = "stamp" /\ stage' = [stage EXCEPT ![v] = "leases"] /\ stamp' = stamp + 1
      /\ UNCHANGED authorityVars /\ UNCHANGED <<fabric, lost>>
  BY DEF Stamp
<1>3. r \in Resources /\ (ahead[v] = {} => r \in last[v])
  BY PublicationTypes DEF Remaining
<1>4. /\ stage'[v] = "leases" /\ draft'[v].resource = r /\ draft'[v].sequence = stamp + 1
      /\ draft'[v] \in Observation
      /\ \A u \in Workers : u # v => /\ stage'[u] = stage[u] /\ draft'[u] = draft[u]
                                     /\ ahead'[u] = ahead[u] /\ last'[u] = last[u]
  BY <1>1, <1>2, <1>3, PublicationTypes DEF Observation
<1>5. ahead'[v] = ahead[v] \ {r} /\ last'[v] = IF ahead[v] # {} THEN last[v] ELSE {}
  BY <1>1, PublicationTypes
<1>6. PublicationTypeOK'
  <2>1. /\ stage' \in [Workers -> {"none", "stamp", "leases", "generation", "post"}]
        /\ ahead' \in [Workers -> SUBSET Resources] /\ last' \in [Workers -> SUBSET Resources]
        /\ stamp' \in Nat
    BY <1>1, <1>2, PublicationTypes
  <2>2. draft' \in [Workers -> Observation \cup {None}] BY <1>1, <1>4, PublicationTypes
  <2>3. \A u \in Workers : stage'[u] \in {"leases", "generation", "post"} => draft'[u] \in Observation
    BY <1>4, PublicationTypes DEF Composing
  <2> QED BY <1>2, <2>1, <2>2, <2>3, PublicationStands, PublicationTypes DEF PublicationTypeOK
<1>7. OwingEnds'
  <2>1. \A u \in Workers : /\ stage'[u] = "none" => ahead'[u] = {} /\ last'[u] = {}
                           /\ \A a, b \in last'[u] : a = b
    BY <1>4, <1>5 DEF Views, OwingEnds
  <2>2. \A h \in Handlers : pc[h] # "idle" => h # v BY <1>2 DEF Views, OwingEnds
  <2> QED BY <1>2, <1>4, <2>1, <2>2, PublicationStands DEF Views, OwingEnds, Workers
<1>8. SequencesAreTaken'
  <2>1. \A u \in Workers : Composing(u)' => draft'[u].sequence <= stamp + 1
    BY <1>4, PublicationTypes DEF Views, SequencesAreTaken, Composing
  <2>2. \A a \in Resources : fabric[a].sequence <= stamp + 1 /\ lost[a] <= stamp + 1
    BY PublicationTypes DEF Views, SequencesAreTaken
  <2> QED BY <1>2, <2>1, <2>2 DEF SequencesAreTaken
<1>9. \A u \in Workers : Read(u)' => u # v /\ Read(u) BY <1>4 DEF Read
<1>10. ViewsAreRead'
  <2>1. \A u \in Workers : Read(u)' => Shows(draft[u].active, draft[u].resource)'
    BY <1>2, <1>4, <1>9, PublicationStands DEF Views, ViewsAreRead
  <2>2. \A u \in Workers : stage'[u] = "post" => Covers(draft[u])'
    BY <1>2, <1>4, PublicationStands DEF Views, ViewsAreRead
  <2>3. \A a \in Resources : Shows(fabric[a].active, a)' /\ Covers(fabric[a])'
    BY <1>2, PublicationStands DEF Views, ViewsAreRead
  <2> QED BY <2>1, <2>2, <2>3 DEF ViewsAreRead
<1>11. LatestIsRight'
  <2> SUFFICES ASSUME NEW a \in Resources, \A u \in Workers : ~Owes(u, a)' PROVE Settled(a)'
    BY DEF LatestIsRight
  <2>1. CASE a = r
    <3>1. \A s \in Nat : Latest(s, r)' => stamp + 1 <= s BY <1>4 DEF Latest, Composing
    <3>2. ~Latest(fabric[r].sequence, r)'
      BY <1>2, <1>3, <3>1, PublicationTypes DEF Views, SequencesAreTaken
    <3>3. ASSUME NEW u \in Workers, Read(u)' PROVE ~Latest(draft[u].sequence, r)'
      <4>1. Composing(u) BY <1>9, <3>3 DEF Read, Composing
      <4>2. draft'[u] = draft[u] BY <1>4, <1>9, <3>3
      <4> QED BY <3>1, <4>1, <4>2, PublicationTypes DEF Views, SequencesAreTaken
    <3> QED BY <1>2, <1>4, <1>9, <2>1, <3>2, <3>3 DEF Settled, Latest
  <2>2. CASE a # r
    <3>1. \A u \in Workers : ~Owes(u, a)
      <4>1. ~Owes(v, a) BY <1>3, <1>5, <2>2 DEF Owes, Views, OwingEnds
      <4> QED BY <1>4, <4>1 DEF Owes
    <3>2. Settled(a) BY <3>1 DEF Views, LatestIsRight
    <3>3. \A s : Latest(s, a)' <=> Latest(s, a)
      BY <1>2, <1>4, <2>2 DEF Latest, Composing
    <3>4. Latest(fabric[a].sequence, a)' => Right(fabric[a].active, a)'
      BY <3>2, <3>3, PublicationStands, <1>2 DEF Settled
    <3>5. ASSUME NEW u \in Workers, Read(u)', draft'[u].resource = a, Latest(draft[u].sequence, a)'
          PROVE  Right(draft[u].active, a)'
      BY <1>2, <1>4, <1>9, <3>2, <3>3, <3>5, PublicationStands DEF Settled
    <3> QED BY <1>2, <1>4, <1>9, <3>4, <3>5 DEF Settled, Latest, Right
  <2> QED BY <2>1, <2>2
<1> QED BY <1>2, <1>6, <1>7, <1>8, <1>10, <1>11, PublicationStands DEF Views

LEMMA ReadLeasesKeeps ==
  ASSUME Views, NEW v \in Workers, ReadLeases(v)
  PROVE  Views'
<1> DEFINE r == draft[v].resource
<1>1. /\ stage[v] = "leases" /\ stage' = [stage EXCEPT ![v] = "generation"]
      /\ draft' = [draft EXCEPT ![v].active = ActiveLease(r)]
      /\ UNCHANGED authorityVars /\ UNCHANGED <<ahead, last, stamp, fabric, lost>>
  BY DEF ReadLeases
<1>2. draft[v] \in Observation /\ Composing(v) /\ ~Read(v) /\ r \in Resources
  BY <1>1, PublicationTypes DEF Composing, Read
<1>3. ActiveLease(r) = {id \in Active(leases) : leases[id].resource = r}
  BY OverlapReflexive, <1>2
     DEF ActiveLease, Views, AuthorityInv, ExclusiveScopes, TypeOK, Active, Issued, Lease
<1>4. ActiveLease(r) \subseteq LeaseIds BY DEF ActiveLease, Active, Views, AuthorityInv, TypeOK, Issued
<1>5. draft' = [draft EXCEPT ![v] = [draft[v] EXCEPT !.active = ActiveLease(r)]]
  BY <1>1, PublicationTypes
<1> DEFINE d == [draft[v] EXCEPT !.active = ActiveLease(r)]
<1>6. /\ d \in Observation /\ d.resource = r /\ d.sequence = draft[v].sequence
      /\ d.active = ActiveLease(r)
  BY <1>2, <1>4 DEF Observation
<1>7. /\ stage'[v] = "generation" /\ draft'[v] = d
      /\ \A u \in Workers : u # v => stage'[u] = stage[u] /\ draft'[u] = draft[u]
  BY <1>1, <1>5, PublicationTypes
<1> HIDE DEF d
<1>8. \A u \in Workers : /\ Composing(u)' <=> Composing(u)
                         /\ stage'[u] = "none" <=> stage[u] = "none"
                         /\ stage'[u] = "post" <=> stage[u] = "post" /\ u # v
                         /\ Composing(u) => /\ draft'[u].resource = draft[u].resource
                                            /\ draft'[u].sequence = draft[u].sequence
  BY <1>1, <1>2, <1>6, <1>7 DEF Composing
<1>9. PublicationTypeOK'
  <2>1. draft' \in [Workers -> Observation \cup {None}] BY <1>5, <1>6, PublicationTypes DEF d
  <2>2. stage' \in [Workers -> {"none", "stamp", "leases", "generation", "post"}]
    BY <1>1, PublicationTypes
  <2>3. \A u \in Workers : stage'[u] \in {"leases", "generation", "post"} => draft'[u] \in Observation
    BY <1>6, <1>7, PublicationTypes DEF Composing
  <2> QED BY <1>1, <2>1, <2>2, <2>3, PublicationStands, PublicationTypes DEF PublicationTypeOK
<1>10. OwingEnds' BY <1>1, <1>8, PublicationStands DEF Views, OwingEnds, Workers
<1>11. SequencesAreTaken' BY <1>1, <1>8 DEF Views, SequencesAreTaken
<1>12. Shows(ActiveLease(r), r) /\ Right(ActiveLease(r), r)
  BY <1>3 DEF Shows, Right, Active, Issued
<1>13. ViewsAreRead'
  <2>1. \A u \in Workers : Read(u)' => Shows(draft[u].active, draft[u].resource)'
    <3>1. Shows(draft[v].active, draft[v].resource)' BY <1>1, <1>6, <1>7, <1>12, PublicationStands
    <3>2. \A u \in Workers : u # v /\ Read(u)' => Shows(draft[u].active, draft[u].resource)'
      BY <1>1, <1>7, PublicationStands DEF Views, ViewsAreRead, Read
    <3> QED BY <3>1, <3>2
  <2>2. \A u \in Workers : stage'[u] = "post" => Covers(draft[u])'
    BY <1>1, <1>7, <1>8, PublicationStands DEF Views, ViewsAreRead
  <2>3. \A a \in Resources : Shows(fabric[a].active, a)' /\ Covers(fabric[a])'
    BY <1>1, PublicationStands DEF Views, ViewsAreRead
  <2> QED BY <2>1, <2>2, <2>3 DEF ViewsAreRead
<1>14. LatestIsRight'
  <2> SUFFICES ASSUME NEW a \in Resources, \A u \in Workers : ~Owes(u, a)' PROVE Settled(a)'
    BY DEF LatestIsRight
  <2>1. \A u \in Workers : ~Owes(u, a) BY <1>1 DEF Owes
  <2>2. Settled(a) BY <2>1 DEF Views, LatestIsRight
  <2>3. \A s : Latest(s, a)' <=> Latest(s, a) BY <1>1, <1>8 DEF Latest
  <2>4. Latest(fabric[a].sequence, a)' => Right(fabric[a].active, a)'
    BY <1>1, <2>2, <2>3, PublicationStands DEF Settled
  <2>5. ASSUME NEW u \in Workers, Read(u)', draft'[u].resource = a, Latest(draft[u].sequence, a)'
        PROVE  Right(draft[u].active, a)'
    <3>1. CASE u = v BY <1>1, <1>6, <1>7, <1>12, <2>5, <3>1, PublicationStands
    <3>2. CASE u # v
      <4>1. Read(u) /\ draft'[u] = draft[u] BY <1>7, <2>5, <3>2 DEF Read
      <4> QED BY <1>1, <2>2, <2>3, <2>5, <4>1, PublicationStands DEF Settled
    <3> QED BY <3>1, <3>2
  <2> QED BY <2>4, <2>5 DEF Settled
<1> QED BY <1>1, <1>9, <1>10, <1>11, <1>13, <1>14, PublicationStands DEF Views

LEMMA ReadGenerationKeeps ==
  ASSUME Views, NEW v \in Workers, ReadGeneration(v)
  PROVE  Views'
<1> DEFINE r == draft[v].resource
           d == [draft[v] EXCEPT !.generation = generations[r]]
<1>1. /\ stage[v] = "generation" /\ stage' = [stage EXCEPT ![v] = "post"]
      /\ draft' = [draft EXCEPT ![v].generation = generations[r]]
      /\ UNCHANGED authorityVars /\ UNCHANGED <<ahead, last, stamp, fabric, lost>>
  BY DEF ReadGeneration
<1>2. draft[v] \in Observation /\ Composing(v) /\ Read(v) /\ r \in Resources
  BY <1>1, PublicationTypes DEF Composing, Read
<1>3. generations[r] \in Nat BY <1>2 DEF Views, AuthorityInv, TypeOK
<1>4. draft' = [draft EXCEPT ![v] = d] BY <1>1, PublicationTypes
<1>5. /\ d \in Observation /\ d.resource = r /\ d.sequence = draft[v].sequence
      /\ d.active = draft[v].active /\ d.generation = generations[r]
  BY <1>2, <1>3 DEF Observation
<1>6. /\ stage'[v] = "post" /\ draft'[v] = d
      /\ \A u \in Workers : u # v => stage'[u] = stage[u] /\ draft'[u] = draft[u]
  BY <1>1, <1>4, PublicationTypes
<1> HIDE DEF d
<1>7. \A u \in Workers : /\ Composing(u)' <=> Composing(u)
                         /\ Read(u)' <=> Read(u)
                         /\ stage'[u] = "none" <=> stage[u] = "none"
                         /\ Composing(u) => /\ draft'[u].resource = draft[u].resource
                                            /\ draft'[u].sequence = draft[u].sequence
                                            /\ draft'[u].active = draft[u].active
  BY <1>1, <1>2, <1>5, <1>6 DEF Composing, Read
<1>8. PublicationTypeOK'
  <2>1. draft' \in [Workers -> Observation \cup {None}] BY <1>4, <1>5, PublicationTypes
  <2>2. stage' \in [Workers -> {"none", "stamp", "leases", "generation", "post"}]
    BY <1>1, PublicationTypes
  <2>3. \A u \in Workers : stage'[u] \in {"leases", "generation", "post"} => draft'[u] \in Observation
    BY <1>5, <1>6, PublicationTypes DEF Composing
  <2> QED BY <1>1, <2>1, <2>2, <2>3, PublicationStands, PublicationTypes DEF PublicationTypeOK
<1>9. OwingEnds' BY <1>1, <1>7, PublicationStands DEF Views, OwingEnds, Workers
<1>10. SequencesAreTaken' BY <1>1, <1>7 DEF Views, SequencesAreTaken
<1>11. Covers(d)
  <2>1. Shows(draft[v].active, r) BY <1>2 DEF Views, ViewsAreRead
  <2> QED BY <1>5, <2>1 DEF Shows, Covers, Views, AuthorityInv, CounterCoversLeases
<1>12. \A u \in Workers : Read(u) => Composing(u) BY DEF Read, Composing
<1>13. ViewsAreRead'
  <2>1. \A u \in Workers : Read(u)' => Shows(draft[u].active, draft[u].resource)'
    BY <1>1, <1>7, <1>12, PublicationStands DEF Views, ViewsAreRead
  <2>2. \A u \in Workers : stage'[u] = "post" => Covers(draft[u])'
    BY <1>1, <1>6, <1>11, PublicationStands DEF Views, ViewsAreRead
  <2>3. \A a \in Resources : Shows(fabric[a].active, a)' /\ Covers(fabric[a])'
    BY <1>1, PublicationStands DEF Views, ViewsAreRead
  <2> QED BY <2>1, <2>2, <2>3 DEF ViewsAreRead
<1>14. LatestIsRight'
  <2> SUFFICES ASSUME NEW a \in Resources, \A u \in Workers : ~Owes(u, a)' PROVE Settled(a)'
    BY DEF LatestIsRight
  <2>1. \A u \in Workers : ~Owes(u, a) BY <1>1 DEF Owes
  <2>2. Settled(a) BY <2>1 DEF Views, LatestIsRight
  <2>3. \A s : Latest(s, a)' <=> Latest(s, a) BY <1>1, <1>7 DEF Latest
  <2>4. Latest(fabric[a].sequence, a)' => Right(fabric[a].active, a)'
    BY <1>1, <2>2, <2>3, PublicationStands DEF Settled
  <2>5. ASSUME NEW u \in Workers, Read(u)', draft'[u].resource = a, Latest(draft[u].sequence, a)'
        PROVE  Right(draft[u].active, a)'
    BY <1>1, <1>7, <1>12, <2>2, <2>3, <2>5, PublicationStands DEF Settled
  <2> QED BY <2>4, <2>5 DEF Settled
<1> QED BY <1>1, <1>8, <1>9, <1>10, <1>13, <1>14, PublicationStands DEF Views

\* The Fabric answers, or the POST fails.
LEMMA PostedKeeps ==
  ASSUME Views, NEW v \in Workers, Post(v) \/ PostFails(v)
  PROVE  Views'
<1> DEFINE d == draft[v]
           r == draft[v].resource
<1>1. /\ stage[v] = "post" /\ UNCHANGED authorityVars /\ UNCHANGED <<ahead, last, stamp>>
      /\ stage' = [stage EXCEPT ![v] = IF ahead[v] \cup last[v] = {} THEN "none" ELSE "stamp"]
      /\ draft' = [draft EXCEPT ![v] = None]
  BY DEF Post, PostFails, Posted
<1>2. /\ d \in Observation /\ Composing(v) /\ Read(v) /\ r \in Resources /\ d.sequence \in Nat
      /\ Shows(d.active, r) /\ Covers(d) /\ d.sequence <= stamp
  BY <1>1, PublicationTypes DEF Composing, Read, Views, ViewsAreRead, SequencesAreTaken
<1>3. /\ stage'[v] \in {"none", "stamp"}
      /\ stage'[v] = "none" => ahead[v] = {} /\ last[v] = {}
      /\ \A u \in Workers : u # v => stage'[u] = stage[u] /\ draft'[u] = draft[u]
  BY <1>1, PublicationTypes
<1>4. \A u \in Workers : /\ Composing(u)' <=> Composing(u) /\ u # v
                         /\ Read(u)' <=> Read(u) /\ u # v
                         /\ stage'[u] = "post" <=> stage[u] = "post" /\ u # v
                         /\ u # v => draft'[u] = draft[u]
  BY <1>1, <1>3 DEF Composing, Read
<1>5. \/ /\ fabric' = fabric /\ lost' = [lost EXCEPT ![r] = IF d.sequence > @ THEN d.sequence ELSE @]
      \/ /\ lost' = lost
         /\ \/ d.sequence > fabric[r].sequence /\ fabric' = [fabric EXCEPT ![r] = d]
            \/ ~(d.sequence > fabric[r].sequence) /\ fabric' = fabric
  BY DEF Post, PostFails, Supersedes
<1>6. ASSUME NEW a \in Resources
      PROVE  /\ fabric'[a] \in Observation /\ lost'[a] \in Nat
             /\ a # r => fabric'[a] = fabric[a] /\ lost'[a] = lost[a]
             /\ \/ fabric'[a] = fabric[a]
                \/ a = r /\ fabric'[a] = d
             /\ fabric'[a].sequence >= fabric[a].sequence /\ lost'[a] >= lost[a]
             /\ fabric'[a].sequence <= stamp /\ lost'[a] <= stamp
  <2>1. fabric[a] \in Observation /\ lost[a] \in Nat /\ fabric[a].sequence \in Nat /\ stamp \in Nat
        /\ fabric[a].sequence <= stamp /\ lost[a] <= stamp
    BY PublicationTypes DEF Views, SequencesAreTaken
  <2>2. CASE fabric' = fabric /\ lost' = [lost EXCEPT ![r] = IF d.sequence > @ THEN d.sequence ELSE @]
    <3>1. lost'[a] = IF a = r /\ d.sequence > lost[r] THEN d.sequence ELSE lost[a]
      BY <2>2, PublicationTypes
    <3> QED BY <1>2, <2>1, <2>2, <3>1
  <2>3. CASE lost' = lost /\ d.sequence > fabric[r].sequence /\ fabric' = [fabric EXCEPT ![r] = d]
    <3>1. fabric'[a] = IF a = r THEN d ELSE fabric[a] BY <2>3, PublicationTypes
    <3> QED BY <1>2, <2>1, <2>3, <3>1
  <2>4. CASE lost' = lost /\ fabric' = fabric BY <2>1, <2>4
  <2> QED BY <1>5, <2>2, <2>3, <2>4
<1>7. fabric'[r].sequence >= d.sequence \/ lost'[r] >= d.sequence
  <2>1. fabric[r].sequence \in Nat /\ lost[r] \in Nat BY <1>2, PublicationTypes
  <2> QED BY <1>2, <1>5, <2>1, PublicationTypes
<1>8. PublicationTypeOK'
  <2>1. /\ stage' \in [Workers -> {"none", "stamp", "leases", "generation", "post"}]
        /\ draft' \in [Workers -> Observation \cup {None}]
    BY <1>1, PublicationTypes
  <2>2. fabric' \in [Resources -> Observation] /\ lost' \in [Resources -> Nat]
    BY <1>5, <1>6, PublicationTypes
  <2>3. \A u \in Workers : stage'[u] \in {"leases", "generation", "post"} => draft'[u] \in Observation
    BY <1>4, PublicationTypes DEF Composing
  <2> QED BY <1>1, <2>1, <2>2, <2>3, PublicationStands, PublicationTypes DEF PublicationTypeOK
<1>9. OwingEnds' BY <1>1, <1>3, PublicationStands DEF Views, OwingEnds, Workers
<1>10. SequencesAreTaken'
  BY <1>1, <1>4, <1>6 DEF Views, SequencesAreTaken
<1>11. ViewsAreRead'
  <2>1. \A u \in Workers : Read(u)' => Shows(draft[u].active, draft[u].resource)'
    BY <1>1, <1>4, PublicationStands DEF Views, ViewsAreRead
  <2>2. \A u \in Workers : stage'[u] = "post" => Covers(draft[u])'
    BY <1>1, <1>4, PublicationStands DEF Views, ViewsAreRead
  <2>3. \A a \in Resources : Shows(fabric[a].active, a)' /\ Covers(fabric[a])'
    BY <1>1, <1>2, <1>6, PublicationStands DEF Views, ViewsAreRead
  <2> QED BY <2>1, <2>2, <2>3 DEF ViewsAreRead
<1>12. LatestIsRight'
  <2> SUFFICES ASSUME NEW a \in Resources, \A u \in Workers : ~Owes(u, a)' PROVE Settled(a)'
    BY DEF LatestIsRight
  <2>1. \A u \in Workers : ~Owes(u, a) BY <1>1 DEF Owes
  <2>2. Settled(a) BY <2>1 DEF Views, LatestIsRight
  <2>3. ASSUME NEW s \in Nat, Latest(s, a)' PROVE Latest(s, a)
    <3>1. fabric'[a].sequence <= s /\ lost'[a] <= s BY <2>3 DEF Latest
    <3>2. /\ fabric'[a].sequence \in Nat /\ lost'[a] \in Nat /\ fabric[a].sequence \in Nat
          /\ lost[a] \in Nat
      BY <1>6, PublicationTypes DEF Observation
    <3>3. fabric[a].sequence <= s /\ lost[a] <= s BY <1>6, <2>3, <3>1, <3>2
    <3>4. a = r => d.sequence <= s BY <1>2, <1>7, <2>3, <3>1, <3>2
    <3>5. \A u \in Workers : Composing(u) /\ draft[u].resource = a => draft[u].sequence <= s
      BY <1>4, <2>3, <3>4 DEF Latest
    <3> QED BY <3>3, <3>5 DEF Latest
  <2>4. ASSUME NEW u \in Workers, Read(u)', draft'[u].resource = a, Latest(draft[u].sequence, a)'
        PROVE  Right(draft[u].active, a)'
    <3>1. Read(u) /\ Composing(u) /\ draft'[u] = draft[u] BY <1>4, <2>4 DEF Read, Composing
    <3>2. Latest(draft[u].sequence, a) BY <2>3, <2>4, <3>1, PublicationTypes
    <3> QED BY <1>1, <2>2, <2>4, <3>1, <3>2, PublicationStands DEF Settled
  <2>5. ASSUME Latest(fabric[a].sequence, a)' PROVE Right(fabric[a].active, a)'
    <3>1. fabric'[a].sequence \in Nat BY <1>6 DEF Observation
    <3>2. Latest(fabric'[a].sequence, a) BY <2>3, <2>5, <3>1
    <3>3. CASE fabric'[a] = fabric[a]
      BY <1>1, <2>2, <3>2, <3>3, PublicationStands DEF Settled
    <3>4. CASE a = r /\ fabric'[a] = d
      BY <1>1, <1>2, <2>2, <3>2, <3>4, PublicationStands DEF Settled
    <3> QED BY <1>6, <3>3, <3>4
  <2> QED BY <2>4, <2>5 DEF Settled
<1> QED BY <1>1, <1>8, <1>9, <1>10, <1>11, <1>12, PublicationStands DEF Views

LEMMA ViewsInitially == PInit => Views
<1> SUFFICES ASSUME PInit PROVE Views OBVIOUS
<1>1. AuthorityInv BY AuthorityInitially DEF PInit
<1>2. /\ stage = [v \in Workers |-> "none"] /\ ahead = [v \in Workers |-> {}]
      /\ last = [v \in Workers |-> {}] /\ stamp = 0 /\ draft = [v \in Workers |-> None]
      /\ lost = [r \in Resources |-> 0]
      /\ fabric = [r \in Resources |-> [resource |-> r, sequence |-> 0,
                                        active |-> {}, generation |-> 0]]
  BY DEF PInit
<1>3. \A v \in Workers : stage[v] = "none" /\ ~Composing(v) /\ ~Read(v)
  BY <1>2 DEF Composing, Read
<1>4. \A r \in Resources : fabric[r] \in Observation /\ fabric[r].active = {} /\ fabric[r].sequence = 0
  BY <1>2 DEF Observation
<1>5. PublicationTypeOK BY <1>1, <1>2, <1>3, <1>4 DEF PublicationTypeOK, AuthorityInv
<1>6. OwingEnds BY <1>2 DEF OwingEnds, Workers
<1>7. SequencesAreTaken BY <1>2, <1>3, <1>4 DEF SequencesAreTaken
<1>8. ViewsAreRead BY <1>3, <1>4 DEF ViewsAreRead, Shows, Covers, Read
<1>9. Active(leases) = {} BY DEF PInit, Init, Active
<1>10. LatestIsRight BY <1>3, <1>4, <1>9 DEF LatestIsRight, Settled, Right
<1> QED BY <1>1, <1>5, <1>6, <1>7, <1>8, <1>10 DEF Views

LEMMA ViewsStep == Views /\ [PNext]_vars => Views'
<1> SUFFICES ASSUME Views, [PNext]_vars PROVE Views' OBVIOUS
<1>1. CASE UNCHANGED vars
  <2>1. leases' = leases /\ pc' = pc /\ UNCHANGED authorityVars /\ UNCHANGED publication
    BY <1>1 DEF vars, authorityVars, publication
  <2> QED BY <2>1, PublicationStands, StandingGrows, SilentMove
<1>2. ASSUME NEW h \in Handlers, PRequest(h) \/ PRefuse(h) \/ PGrant(h) \/ PRenew(h) PROVE Views'
  BY <1>2, RequestKeeps, RefuseKeeps, PGrantKeeps, RenewKeeps
<1>3. ASSUME NEW v \in Workers, PublishStep(v) PROVE Views'
  BY <1>3, StampKeeps, ReadLeasesKeeps, ReadGenerationKeeps, PostedKeeps DEF PublishStep
<1> QED BY <1>1, <1>2, <1>3, ClockKeeps, ViewKeeps, PSweepKeeps DEF PNext

LEMMA ViewsCurrent ==
  ASSUME Views
  PROVE  ViewsAreCurrent
<1>1. ViewsAreCoherent BY DEF Views, ViewsAreRead, Covers, ViewsAreCoherent
<1>2. FabricConverges
  <2> SUFFICES ASSUME \A v \in Workers : stage[v] = "none", NEW r \in Resources,
                      fabric[r].sequence >= lost[r]
               PROVE  Right(fabric[r].active, r)
    BY DEF FabricConverges, Right
  <2>1. \A v \in Workers : ~Owes(v, r) /\ ~Composing(v)
    BY DEF Views, OwingEnds, Owes, Composing
  <2>2. fabric[r].sequence \in Nat /\ lost[r] \in Nat BY PublicationTypes
  <2>3. Latest(fabric[r].sequence, r) BY <2>1, <2>2 DEF Latest
  <2> QED BY <2>1, <2>3 DEF Views, LatestIsRight, Settled
<1> QED BY <1>1, <1>2 DEF ViewsAreCurrent

\* Once every publication in flight has ended, the Fabric shows every lease in force
\* of a resource whose latest POST arrived, and none that was released or preempted,
\* in whatever order views were stamped, read and posted; and no view, at any time,
\* shows a lease newer than its own generation (publish_control_authority_resource).
THEOREM ViewsCatchUp == PSpec => []ViewsAreCurrent
BY ViewsInitially, ViewsStep, ViewsCurrent, PTL DEF PSpec

---------------------------------------------------------------------------
(* The store of observations, and one edge of its transforms.               *)

\* A set of natural numbers that is not empty has a least element.
LEMMA LeastNumber ==
  ASSUME NEW S \in SUBSET Nat, S # {}
  PROVE  \E m \in S : \A k \in S : m <= k
<1> DEFINE R == {ss \in Nat \X Nat : ss[1] < ss[2]}
<1>1. IsWellFoundedOn(R, Nat)
  BY NatLessThanWellFounded DEF OpToRel
<1> HIDE DEF R
<1>2. PICK x \in S : \A y \in S : ~(<<y, x>> \in R)
  BY <1>1, WFMin
<1>3. \A y \in S : <<y, x>> \in Nat \X Nat /\ <<y, x>>[1] = y /\ <<y, x>>[2] = x
  OBVIOUS
<1>4. \A y \in S : ~(y < x)
  BY <1>2, <1>3 DEF R
<1> QED BY <1>4

\* Min and Max of a set of positions.
LEMMA LeastPosition ==
  ASSUME NEW S \in SUBSET Nat, S # {}
  PROVE  Store!Min(S) \in S /\ \A i \in S : Store!Min(S) <= i
BY LeastNumber DEF Store!Min

LEMMA LastPosition ==
  ASSUME NEW n \in Nat, NEW S \in SUBSET (1 .. n), S # {}
  PROVE  Store!Max(S) \in S /\ \A i \in S : Store!Max(S) >= i
<1> DEFINE T == {k \in Nat : \E i \in S : k = n - i}
<1>1. T \in SUBSET Nat
  OBVIOUS
<1>2. PICK e \in S : TRUE
  OBVIOUS
<1>3. n - e \in T
  BY <1>2
<1>4. PICK m \in T : \A k \in T : m <= k
  BY <1>1, <1>3, LeastNumber
<1>5. PICK j \in S : m = n - j
  BY <1>4
<1>6. ASSUME NEW i \in S PROVE j >= i
  <2>1. n - i \in T
    OBVIOUS
  <2>2. m <= n - i
    BY <1>4, <2>1
  <2> QED BY <1>5, <2>2
<1> QED BY <1>6 DEF Store!Max

---------------------------------------------------------------------------
\* Two sequences joined, a sample put in at a place, and one taken out.
LEMMA Joined ==
  ASSUME NEW S, NEW A \in Seq(S), NEW C \in Seq(S)
  PROVE  /\ A \o C \in Seq(S) /\ Len(A \o C) = Len(A) + Len(C)
         /\ \A i \in 1 .. Len(A) : (A \o C)[i] = A[i]
         /\ \A i \in Len(A) + 1 .. Len(A) + Len(C) : (A \o C)[i] = C[i - Len(A)]
<1>1. PICK D : D = A \o C
  OBVIOUS
<1>2. D \in Seq(S) /\ Len(D) = Len(A) + Len(C)
  BY <1>1, ConcatProperties
<1>3. PICK m \in Nat, n \in Nat : m = Len(A) /\ n = Len(C)
  OBVIOUS
<1>4. \A i \in 1 .. m + n : D[i] = IF i <= m THEN A[i] ELSE C[i - m]
  BY <1>1, <1>3, ConcatProperties
<1>5. \A i \in 1 .. m : D[i] = A[i]
  BY <1>4
<1>6. \A i \in m + 1 .. m + n : D[i] = C[i - m]
  BY <1>4
<1> QED BY <1>1, <1>2, <1>3, <1>5, <1>6

LEMMA PutIn ==
  ASSUME NEW S, NEW xs \in Seq(S), NEW e \in S, NEW place \in 1 .. Len(xs) + 1
  PROVE  LET put == Store!InsertAt(xs, place, e)
         IN  /\ put \in Seq(S) /\ Len(put) = Len(xs) + 1
             /\ \A i \in 1 .. place - 1 : put[i] = xs[i]
             /\ put[place] = e
             /\ \A i \in place .. Len(xs) : put[i + 1] = xs[i]
<1>a. place - 1 \in 0 .. Len(xs)
  OBVIOUS
<1>b. PICK k \in 0 .. Len(xs) : k = place - 1 /\ place = k + 1
  BY <1>a
<1> DEFINE A == SubSeq(xs, 1, k)
           C == SubSeq(xs, k + 1, Len(xs))
<1>0. PICK n \in Nat : n = Len(xs)
  OBVIOUS
<1>1. A \in Seq(S) /\ Len(A) = k /\ \A i \in 1 .. k : A[i] = xs[i]
  <2>1. \A i \in 1 .. k - 1 + 1 : A[i] = xs[1 + i - 1]
    BY <1>0, SubSeqProperties
  <2>2. A \in Seq(S) /\ Len(A) = IF 1 <= k THEN k - 1 + 1 ELSE 0
    BY <1>0, SubSeqProperties
  <2> QED BY <2>1, <2>2
<1>2. C \in Seq(S) /\ Len(C) = n - k /\ \A i \in 1 .. n - k : C[i] = xs[i + k]
  <2>1. \A i \in 1 .. n - (k + 1) + 1 : C[i] = xs[(k + 1) + i - 1]
    BY <1>0, SubSeqProperties
  <2>2. C \in Seq(S) /\ Len(C) = IF k + 1 <= n THEN n - (k + 1) + 1 ELSE 0
    BY <1>0, SubSeqProperties
  <2>3. \A i \in 1 .. n - k : (k + 1) + i - 1 = i + k /\ n - (k + 1) + 1 = n - k
    BY <1>0
  <2>4. n - (k + 1) + 1 = n - k /\ k <= n
    BY <1>0
  <2> QED BY <2>1, <2>2, <2>3, <2>4
<1>3. Store!InsertAt(xs, place, e) = A \o <<e>> \o C
  BY <1>b DEF Store!InsertAt
<1> HIDE DEF A, C
<1>4. /\ A \o <<e>> \in Seq(S) /\ Len(A \o <<e>>) = k + 1
      /\ \A i \in 1 .. k : (A \o <<e>>)[i] = xs[i]
      /\ (A \o <<e>>)[k + 1] = e
  BY <1>1
<1>5. PICK B \in Seq(S) : /\ B = A \o <<e>> /\ Len(B) = k + 1
                          /\ (\A i \in 1 .. k : B[i] = xs[i]) /\ B[k + 1] = e
  BY <1>4
<1>6. /\ B \o C \in Seq(S) /\ Len(B \o C) = (k + 1) + (n - k)
      /\ \A i \in 1 .. k + 1 : (B \o C)[i] = B[i]
      /\ \A i \in (k + 1) + 1 .. (k + 1) + (n - k) : (B \o C)[i] = C[i - (k + 1)]
  <2>0. k + 1 \in Nat /\ n - k \in Nat
    BY <1>0
  <2>1. PICK b \in Nat, q \in Nat : b = k + 1 /\ q = n - k
    BY <2>0
  <2>2. Len(B) = b /\ Len(C) = q /\ C \in Seq(S)
    BY <1>2, <1>5, <2>1
  <2>3. /\ B \o C \in Seq(S) /\ Len(B \o C) = b + q
        /\ \A i \in 1 .. b : (B \o C)[i] = B[i]
        /\ \A i \in b + 1 .. b + q : (B \o C)[i] = C[i - b]
    BY <2>2, Joined
  <2> QED BY <2>1, <2>3
<1>7. PICK D : /\ D = B \o C /\ D \in Seq(S) /\ Len(D) = n + 1
               /\ (\A i \in 1 .. k + 1 : D[i] = B[i])
               /\ \A i \in k + 2 .. n + 1 : D[i] = C[i - (k + 1)]
  <2>1. (k + 1) + (n - k) = n + 1 /\ (k + 1) + 1 = k + 2
    BY <1>0
  <2> QED BY <1>6, <2>1
<1>8. ASSUME NEW i \in k + 1 .. n
      PROVE  D[i + 1] = xs[i]
  <2>1. i - k \in 1 .. n - k /\ i + 1 \in k + 2 .. n + 1 /\ (i + 1) - (k + 1) = i - k /\ (i - k) + k = i
    BY <1>0
  <2> QED BY <1>2, <1>7, <2>1
<1>9. Store!InsertAt(xs, place, e) = D
  BY <1>3, <1>5, <1>7
<1>10. \A i \in 1 .. k : D[i] = xs[i]
  BY <1>5, <1>7
<1>11. D[k + 1] = e
  BY <1>5, <1>7
<1> QED BY <1>0, <1>b, <1>7, <1>8, <1>9, <1>10, <1>11

LEMMA TakenOut ==
  ASSUME NEW S, NEW xs \in Seq(S), NEW k \in 1 .. Len(xs)
  PROVE  LET rest == Store!RemoveAt(xs, k)
         IN  /\ rest \in Seq(S) /\ Len(rest) = Len(xs) - 1
             /\ \A i \in 1 .. k - 1 : rest[i] = xs[i]
             /\ \A i \in k .. Len(xs) - 1 : rest[i] = xs[i + 1]
<1> DEFINE A == SubSeq(xs, 1, k - 1)
           C == SubSeq(xs, k + 1, Len(xs))
<1>0. PICK n \in Nat : n = Len(xs)
  OBVIOUS
<1>1. A \in Seq(S) /\ Len(A) = k - 1 /\ \A i \in 1 .. k - 1 : A[i] = xs[i]
  <2>1. \A i \in 1 .. (k - 1) - 1 + 1 : A[i] = xs[1 + i - 1]
    BY <1>0, SubSeqProperties
  <2>2. A \in Seq(S) /\ Len(A) = IF 1 <= k - 1 THEN (k - 1) - 1 + 1 ELSE 0
    BY <1>0, SubSeqProperties
  <2> QED BY <2>1, <2>2
<1>2. C \in Seq(S) /\ Len(C) = n - k /\ \A i \in 1 .. n - k : C[i] = xs[i + k]
  <2>1. \A i \in 1 .. n - (k + 1) + 1 : C[i] = xs[(k + 1) + i - 1]
    BY <1>0, SubSeqProperties
  <2>2. C \in Seq(S) /\ Len(C) = IF k + 1 <= n THEN n - (k + 1) + 1 ELSE 0
    BY <1>0, SubSeqProperties
  <2>3. \A i \in 1 .. n - k : (k + 1) + i - 1 = i + k
    BY <1>0
  <2>4. n - (k + 1) + 1 = n - k /\ k <= n
    BY <1>0
  <2> QED BY <2>1, <2>2, <2>3, <2>4
<1>3. Store!RemoveAt(xs, k) = A \o C
  BY DEF Store!RemoveAt
<1> HIDE DEF A, C
<1>4. /\ A \o C \in Seq(S) /\ Len(A \o C) = (k - 1) + (n - k)
      /\ \A i \in 1 .. k - 1 : (A \o C)[i] = A[i]
      /\ \A i \in (k - 1) + 1 .. (k - 1) + (n - k) : (A \o C)[i] = C[i - (k - 1)]
  <2>0. k - 1 \in Nat /\ n - k \in Nat
    BY <1>0
  <2>1. PICK b \in Nat, q \in Nat : b = k - 1 /\ q = n - k
    BY <2>0
  <2>2. Len(A) = b /\ Len(C) = q /\ A \in Seq(S) /\ C \in Seq(S)
    BY <1>1, <1>2, <2>1
  <2>3. /\ A \o C \in Seq(S) /\ Len(A \o C) = b + q
        /\ \A i \in 1 .. b : (A \o C)[i] = A[i]
        /\ \A i \in b + 1 .. b + q : (A \o C)[i] = C[i - b]
    BY <2>2, Joined
  <2> QED BY <2>1, <2>3
<1>5. PICK D : /\ D = A \o C /\ D \in Seq(S) /\ Len(D) = n - 1
               /\ (\A i \in 1 .. k - 1 : D[i] = A[i])
               /\ \A i \in k .. n - 1 : D[i] = C[i - (k - 1)]
  <2>1. (k - 1) + (n - k) = n - 1 /\ (k - 1) + 1 = k
    BY <1>0
  <2> QED BY <1>4, <2>1
<1>6. ASSUME NEW i \in k .. n - 1
      PROVE  D[i] = xs[i + 1]
  <2>1. i - (k - 1) \in 1 .. n - k /\ (i - (k - 1)) + k = i + 1
    BY <1>0
  <2> QED BY <1>2, <1>5, <2>1
<1>7. Store!RemoveAt(xs, k) = D
  BY <1>3, <1>5
<1>8. \A i \in 1 .. k - 1 : D[i] = xs[i]
  BY <1>1, <1>5
<1> QED BY <1>0, <1>5, <1>6, <1>7, <1>8

---------------------------------------------------------------------------
\* A sample; samples in the order of their observation; no two with one id.
Sample == [by : Authorities, at : Nat, id : Nat,
           static : BOOLEAN, usable : BOOLEAN, epoch : Nat]
Sorted(xs) ==
  \A i, j \in 1 .. Len(xs) : i < j => Store!Precedes(xs[i], xs[j])
Holds(xs, s) == \E i \in 1 .. Len(xs) : xs[i] = s

LEMMA PrecedesIsAnOrder ==
  ASSUME NEW x \in Sample, NEW y \in Sample
  PROVE  /\ \A z \in Sample : Store!Precedes(x, y) /\ Store!Precedes(y, z) => Store!Precedes(x, z)
         /\ x.id # y.id => Store!Precedes(x, y) \/ Store!Precedes(y, x)
         /\ ~(Store!Precedes(x, y) /\ Store!Precedes(y, x))
BY DEF Sample, Store!Precedes

\* partition_point: those before the place precede, those after it do not.
LEMMA PointDivides ==
  ASSUME NEW xs \in Seq(Sample), Sorted(xs), NEW e \in Sample
  PROVE  /\ Store!PartitionPoint(xs, e) \in 0 .. Len(xs)
         /\ \A i \in 1 .. Len(xs) :
              i <= Store!PartitionPoint(xs, e) <=> Store!Precedes(xs[i], e)
<1>0. PICK n \in Nat : n = Len(xs)
  OBVIOUS
<1> DEFINE N == {i \in 1 .. n + 1 : i = n + 1 \/ ~Store!Precedes(xs[i], e)}
<1>1. N \in SUBSET Nat /\ n + 1 \in N
  BY <1>0
<1>2. PICK m \in N : \A i \in N : m <= i
  BY <1>1, LeastNumber
<1>3. m \in 1 .. n + 1 /\ (m = n + 1 \/ ~Store!Precedes(xs[m], e))
  OBVIOUS
<1>4. \A i \in 1 .. n : i <= m - 1 => Store!Precedes(xs[i], e)
  BY <1>2, <1>3
<1> HIDE DEF N
<1>5. ASSUME NEW i \in 1 .. n, Store!Precedes(xs[i], e), ~(i <= m - 1)
      PROVE  FALSE
  <2>1. m \in 1 .. n /\ ~Store!Precedes(xs[m], e) /\ i >= m
    BY <1>3, <1>5
  <2>2. xs[m] \in Sample /\ xs[i] \in Sample
    BY <1>0, <2>1
  <2>3. i # m => Store!Precedes(xs[m], xs[i])
    BY <1>0, <2>1 DEF Sorted
  <2> QED BY <1>5, <2>1, <2>2, <2>3, PrecedesIsAnOrder
<1>6. m - 1 \in 0 .. Len(xs)
  BY <1>0, <1>3
<1>7. DOMAIN xs = 1 .. n
  BY <1>0
<1>8. \A i \in DOMAIN xs : i <= m - 1 <=> Store!Precedes(xs[i], e)
  BY <1>4, <1>5, <1>7
<1> QED BY <1>0, <1>6, <1>7, <1>8 DEF Store!PartitionPoint

LEMMA InsertedStaysSorted ==
  ASSUME NEW xs \in Seq(Sample), Sorted(xs), NEW e \in Sample,
         \A i \in 1 .. Len(xs) : xs[i].id # e.id
  PROVE  LET put == Store!InsertedInOrder(xs, e)
         IN  /\ put \in Seq(Sample) /\ Sorted(put)
             /\ \A s : Holds(put, s) <=> Holds(xs, s) \/ s = e
<1>0. PICK n \in Nat : n = Len(xs)
  OBVIOUS
<1>1. PICK k \in 0 .. n : /\ k = Store!PartitionPoint(xs, e)
                          /\ \A i \in 1 .. n : i <= k <=> Store!Precedes(xs[i], e)
  BY <1>0, PointDivides
<1>2. PICK D : D = Store!InsertedInOrder(xs, e)
  OBVIOUS
<1>3. /\ D \in Seq(Sample) /\ Len(D) = n + 1
      /\ \A i \in 1 .. k : D[i] = xs[i]
      /\ D[k + 1] = e
      /\ \A i \in k + 1 .. n : D[i + 1] = xs[i]
  <2>1. 1 + k \in 1 .. Len(xs) + 1
    BY <1>0
  <2>2. PICK place \in 1 .. Len(xs) + 1 : place = 1 + k
    BY <2>1
  <2>3. D = Store!InsertAt(xs, place, e)
    BY <1>1, <1>2, <2>2 DEF Store!InsertedInOrder
  <2>4. /\ D \in Seq(Sample) /\ Len(D) = Len(xs) + 1
        /\ \A i \in 1 .. place - 1 : D[i] = xs[i]
        /\ D[place] = e
        /\ \A i \in place .. Len(xs) : D[i + 1] = xs[i]
    BY <2>3, PutIn
  <2> QED BY <1>0, <2>2, <2>4
<1>4. \A i \in k + 2 .. n + 1 : i - 1 \in k + 1 .. n /\ D[i] = xs[i - 1]
  <2> SUFFICES ASSUME NEW i \in k + 2 .. n + 1
               PROVE  i - 1 \in k + 1 .. n /\ D[i] = xs[i - 1]
    OBVIOUS
  <2>1. i - 1 \in k + 1 .. n /\ (i - 1) + 1 = i
    BY <1>1
  <2> QED BY <1>3, <2>1
<1>5. \A i \in 1 .. n : xs[i] \in Sample /\ xs[i].id # e.id
  BY <1>0
<1>6. \A i \in 1 .. n : i > k => Store!Precedes(e, xs[i])
  BY <1>1, <1>5, PrecedesIsAnOrder
<1>7. ASSUME NEW i \in 1 .. n + 1, NEW j \in 1 .. n + 1, i < j
      PROVE  Store!Precedes(D[i], D[j])
  <2>0. \A u \in 1 .. n, v \in 1 .. n : u < v => Store!Precedes(xs[u], xs[v])
    BY <1>0 DEF Sorted
  <2>1. CASE j <= k
    <3>1. i \in 1 .. k /\ j \in 1 .. k /\ i \in 1 .. n /\ j \in 1 .. n
      BY <1>7, <2>1
    <3> QED BY <1>3, <1>7, <2>0, <3>1
  <2>2. CASE j = k + 1
    <3>1. i \in 1 .. k /\ i \in 1 .. n
      BY <1>7, <2>2
    <3> QED BY <1>1, <1>3, <2>2, <3>1
  <2>3. CASE j > k + 1 /\ i <= k
    <3>1. i \in 1 .. k /\ i \in 1 .. n /\ j \in k + 2 .. n + 1 /\ j - 1 \in 1 .. n /\ i < j - 1
      BY <1>7, <2>3
    <3> QED BY <1>3, <1>4, <2>0, <3>1
  <2>4. CASE j > k + 1 /\ i = k + 1
    <3>1. j \in k + 2 .. n + 1 /\ j - 1 \in 1 .. n /\ j - 1 > k
      BY <1>7, <2>4
    <3> QED BY <1>3, <1>4, <1>6, <2>4, <3>1
  <2>5. CASE j > k + 1 /\ i > k + 1
    <3>1. /\ i \in k + 2 .. n + 1 /\ j \in k + 2 .. n + 1
          /\ i - 1 \in 1 .. n /\ j - 1 \in 1 .. n /\ i - 1 < j - 1
      BY <1>7, <2>5
    <3> QED BY <1>4, <2>0, <3>1
  <2> QED BY <1>1, <2>1, <2>2, <2>3, <2>4, <2>5
<1>8. Sorted(D)
  BY <1>3, <1>7 DEF Sorted
<1>9. ASSUME NEW s PROVE Holds(D, s) <=> Holds(xs, s) \/ s = e
  <2>1. ASSUME NEW i \in 1 .. n + 1, D[i] = s PROVE Holds(xs, s) \/ s = e
    <3>1. CASE i \in 1 .. k BY <1>0, <1>3, <2>1, <3>1 DEF Holds
    <3>2. CASE i = k + 1 BY <1>3, <2>1, <3>2
    <3>3. CASE i \in k + 2 .. n + 1 BY <1>0, <1>4, <2>1, <3>3 DEF Holds
    <3> QED BY <3>1, <3>2, <3>3
  <2>2. ASSUME NEW i \in 1 .. n, xs[i] = s PROVE \E j \in 1 .. n + 1 : D[j] = s
    <3>1. CASE i \in 1 .. k BY <1>3, <2>2, <3>1
    <3>2. CASE i \in k + 1 .. n
      <4>1. i + 1 \in 1 .. n + 1 /\ D[i + 1] = s
        BY <1>3, <2>2, <3>2
      <4> QED BY <4>1
    <3> QED BY <3>1, <3>2
  <2>3. k + 1 \in 1 .. n + 1 /\ D[k + 1] = e
    BY <1>3
  <2> QED BY <1>0, <1>3, <2>1, <2>2, <2>3 DEF Holds
<1> QED BY <1>2, <1>3, <1>8, <1>9

LEMMA RemovedStaysSorted ==
  ASSUME NEW xs \in Seq(Sample), Sorted(xs), NEW e, Holds(xs, e),
         \A i, j \in 1 .. Len(xs) : xs[i].id = xs[j].id => i = j
  PROVE  LET rest == Store!Removed(xs, e)
         IN  /\ rest \in Seq(Sample) /\ Sorted(rest)
             /\ \A s : Holds(rest, s) <=> Holds(xs, s) /\ s # e
<1>0. PICK n \in Nat : n = Len(xs)
  OBVIOUS
<1>1. PICK k \in 1 .. n : xs[k] = e
  BY <1>0 DEF Holds
<1>2. {i \in DOMAIN xs : xs[i].id = e.id} = {k}
  BY <1>0, <1>1
<1>3. Store!Min({k}) = k
  BY LeastPosition
<1>4. PICK D : D = Store!Removed(xs, e)
  OBVIOUS
<1>5. D = Store!RemoveAt(xs, k)
  BY <1>2, <1>3, <1>4 DEF Store!Removed
<1>6. /\ D \in Seq(Sample) /\ Len(D) = n - 1
      /\ \A i \in 1 .. k - 1 : D[i] = xs[i]
      /\ \A i \in k .. n - 1 : D[i] = xs[i + 1]
  BY <1>0, <1>5, TakenOut
<1>7. ASSUME NEW i \in 1 .. n - 1, NEW j \in 1 .. n - 1, i < j
      PROVE  Store!Precedes(D[i], D[j])
  <2>0. \A u \in 1 .. n, v \in 1 .. n : u < v => Store!Precedes(xs[u], xs[v])
    BY <1>0 DEF Sorted
  <2>1. CASE j <= k - 1
    <3>1. i \in 1 .. k - 1 /\ j \in 1 .. k - 1 /\ i \in 1 .. n /\ j \in 1 .. n
      BY <1>7, <2>1
    <3> QED BY <1>6, <1>7, <2>0, <3>1
  <2>2. CASE j >= k /\ i <= k - 1
    <3>1. i \in 1 .. k - 1 /\ i \in 1 .. n /\ j \in k .. n - 1 /\ j + 1 \in 1 .. n /\ i < j + 1
      BY <1>7, <2>2
    <3> QED BY <1>6, <2>0, <3>1
  <2>3. CASE i >= k
    <3>1. /\ i \in k .. n - 1 /\ j \in k .. n - 1
          /\ i + 1 \in 1 .. n /\ j + 1 \in 1 .. n /\ i + 1 < j + 1
      BY <1>7, <2>3
    <3> QED BY <1>6, <2>0, <3>1
  <2> QED BY <2>1, <2>2, <2>3
<1>8. Sorted(D)
  BY <1>6, <1>7 DEF Sorted
<1>9. ASSUME NEW s PROVE Holds(D, s) <=> Holds(xs, s) /\ s # e
  <2>1. ASSUME NEW i \in 1 .. n - 1, D[i] = s PROVE Holds(xs, s) /\ s # e
    <3>1. CASE i \in 1 .. k - 1
      <4>1. i \in 1 .. n /\ i # k /\ xs[i] = s
        BY <1>6, <2>1, <3>1
      <4> QED BY <1>0, <1>1, <4>1 DEF Holds
    <3>2. CASE i \in k .. n - 1
      <4>1. i + 1 \in 1 .. n /\ i + 1 # k /\ xs[i + 1] = s
        BY <1>6, <2>1, <3>2
      <4> QED BY <1>0, <1>1, <4>1 DEF Holds
    <3> QED BY <3>1, <3>2
  <2>2. ASSUME NEW i \in 1 .. n, xs[i] = s, s # e PROVE \E j \in 1 .. n - 1 : D[j] = s
    <3>1. CASE i < k
      <4>1. i \in 1 .. k - 1 /\ i \in 1 .. n - 1
        BY <3>1
      <4> QED BY <1>6, <2>2, <4>1
    <3>2. CASE i > k
      <4>1. i - 1 \in k .. n - 1 /\ i - 1 \in 1 .. n - 1 /\ (i - 1) + 1 = i
        BY <3>2
      <4> QED BY <1>6, <2>2, <4>1
    <3> QED BY <1>1, <2>2, <3>1, <3>2
  <2> QED BY <1>0, <1>6, <2>1, <2>2 DEF Holds
<1> QED BY <1>4, <1>6, <1>8, <1>9

---------------------------------------------------------------------------
\* An edge: the samples retained in the order of their arrival, and their index.
Histories == [static : Seq(Sample), dynamic : Seq(Sample)]
GoodEdge(e, top) ==
  /\ e.order \in Seq(Sample) /\ e.index \in [Authorities -> Histories]
  /\ \A i, j \in 1 .. Len(e.order) : i < j => e.order[i].id < e.order[j].id
  /\ \A i \in 1 .. Len(e.order) : e.order[i].id < top
  /\ \A a \in Authorities, q \in {"static", "dynamic"} :
       /\ Sorted(e.index[a][q])
       /\ \A s : Holds(e.index[a][q], s) <=> Holds(e.order, s) /\ s.by = a /\ Store!Part(s) = q

\* One list of the index is changed.
Changed(index, b, q, new) == [index EXCEPT ![b][q] = new]

LEMMA IndexAt ==
  ASSUME NEW index \in [Authorities -> Histories], NEW b \in Authorities,
         NEW q \in {"static", "dynamic"}, NEW new \in Seq(Sample)
  PROVE  /\ Changed(index, b, q, new) \in [Authorities -> Histories]
         /\ Changed(index, b, q, new)[b][q] = new
         /\ \A a \in Authorities, r \in {"static", "dynamic"} :
              a # b \/ r # q => Changed(index, b, q, new)[a][r] = index[a][r]
<1>1. CASE q = "static" BY <1>1 DEF Histories, Changed
<1>2. CASE q = "dynamic" BY <1>2 DEF Histories, Changed
<1> QED BY <1>1, <1>2

LEMMA ListsHaveSamples ==
  ASSUME NEW index \in [Authorities -> Histories], NEW a \in Authorities, NEW q \in {"static", "dynamic"}
  PROVE  index[a][q] \in Seq(Sample)
BY DEF Histories

LEMMA HeldIsSample ==
  ASSUME NEW xs \in Seq(Sample), NEW s, Holds(xs, s)
  PROVE  s \in Sample /\ s.by \in Authorities /\ Store!Part(s) \in {"static", "dynamic"}
<1>1. s \in Sample
  BY DEF Holds
<1> QED BY <1>1 DEF Sample, Store!Part

\* A sample is put in, with an id of its own.
LEMMA GrownIsGood ==
  ASSUME NEW order, NEW index, NEW top \in Nat, GoodEdge([order |-> order, index |-> index], top),
         NEW s \in Sample, s.id = top
  PROVE  GoodEdge([order |-> Append(order, s),
                   index |-> [index EXCEPT ![s.by][Store!Part(s)] =
                                Store!InsertedInOrder(@, s)]], top + 1)
<1>1. /\ order \in Seq(Sample) /\ index \in [Authorities -> Histories]
      /\ \A i, j \in 1 .. Len(order) : i < j => order[i].id < order[j].id
      /\ \A i \in 1 .. Len(order) : order[i].id < top
      /\ \A a \in Authorities, q \in {"static", "dynamic"} :
           /\ Sorted(index[a][q])
           /\ \A x : Holds(index[a][q], x) <=> Holds(order, x) /\ x.by = a /\ Store!Part(x) = q
  BY DEF GoodEdge
<1>2. PICK n \in Nat : n = Len(order)
  BY <1>1
<1>3. PICK b \in Authorities, q \in {"static", "dynamic"} : b = s.by /\ q = Store!Part(s)
  BY DEF Sample, Store!Part
<1>4. PICK xs \in Seq(Sample) : xs = index[b][q]
  BY <1>1, ListsHaveSamples
<1>5. \A i \in 1 .. Len(xs) : xs[i].id # s.id
  <2> SUFFICES ASSUME NEW i \in 1 .. Len(xs) PROVE xs[i].id # s.id
    OBVIOUS
  <2>1. Holds(order, xs[i])
    BY <1>1, <1>4 DEF Holds
  <2>2. PICK j \in 1 .. n : order[j] = xs[i]
    BY <1>2, <2>1 DEF Holds
  <2>3. order[j].id < top /\ order[j] \in Sample
    BY <1>1, <1>2
  <2> QED BY <2>2, <2>3 DEF Sample
<1>6. PICK new \in Seq(Sample) : new = Store!InsertedInOrder(xs, s) /\ Sorted(new)
                                 /\ \A x : Holds(new, x) <=> Holds(xs, x) \/ x = s
  BY <1>1, <1>4, <1>5, InsertedStaysSorted
<1>7a. PICK changed : changed = Changed(index, b, q, new)
  OBVIOUS
<1>7. /\ changed \in [Authorities -> Histories]
      /\ changed[b][q] = new
      /\ \A a \in Authorities, r \in {"static", "dynamic"} :
           a # b \/ r # q => changed[a][r] = index[a][r]
  BY <1>1, <1>7a, IndexAt
<1>8. [index EXCEPT ![s.by][Store!Part(s)] = Store!InsertedInOrder(@, s)] = changed
  BY <1>3, <1>4, <1>6, <1>7a DEF Changed
<1>9a. PICK o : o = Append(order, s)
  OBVIOUS
<1>9. /\ o \in Seq(Sample) /\ Len(o) = n + 1 /\ o[n + 1] = s
      /\ \A i \in 1 .. n : o[i] = order[i]
  BY <1>1, <1>2, <1>9a
<1>10. ASSUME NEW x PROVE Holds(o, x) <=> Holds(order, x) \/ x = s
  <2>1. \A i \in 1 .. n + 1 : i \in 1 .. n \/ i = n + 1
    OBVIOUS
  <2>2. \A i \in 1 .. n : i \in 1 .. n + 1
    OBVIOUS
  <2>3. n + 1 \in 1 .. n + 1
    OBVIOUS
  <2> QED BY <1>2, <1>9, <2>1, <2>2, <2>3 DEF Holds
<1>11. ASSUME NEW i \in 1 .. n + 1, NEW j \in 1 .. n + 1, i < j
       PROVE  o[i].id < o[j].id
  <2>1. i \in 1 .. n /\ (j \in 1 .. n \/ j = n + 1)
    BY <1>11
  <2> QED BY <1>1, <1>2, <1>9, <1>11, <2>1
<1>12. ASSUME NEW i \in 1 .. n + 1 PROVE o[i].id < top + 1
  <2>1. i \in 1 .. n \/ i = n + 1
    OBVIOUS
  <2>2. i \in 1 .. n => order[i].id < top /\ order[i] \in Sample
    BY <1>1, <1>2
  <2> QED BY <1>9, <2>1, <2>2 DEF Sample
<1>13. ASSUME NEW a \in Authorities, NEW r \in {"static", "dynamic"}
       PROVE  /\ Sorted(changed[a][r])
              /\ \A x : Holds(changed[a][r], x) <=> Holds(o, x) /\ x.by = a /\ Store!Part(x) = r
  <2>1. CASE a = b /\ r = q
    BY <1>1, <1>3, <1>4, <1>6, <1>7, <1>10, <2>1
  <2>2. CASE a # b \/ r # q
    <3>1. changed[a][r] = index[a][r]
      BY <1>7, <2>2
    <3>2. ~(s.by = a /\ Store!Part(s) = r)
      BY <1>3, <2>2
    <3> QED BY <1>1, <1>10, <3>1, <3>2
  <2> QED BY <2>1, <2>2
<1>14. GoodEdge([order |-> o, index |-> changed], top + 1)
  BY <1>9, <1>7, <1>11, <1>12, <1>13 DEF GoodEdge
<1> QED BY <1>7a, <1>8, <1>9a, <1>14

\* The sample that arrived first leaves.
LEMMA EvictedIsGood ==
  ASSUME NEW order, NEW index, NEW top \in Nat, GoodEdge([order |-> order, index |-> index], top),
         order # <<>>
  PROVE  GoodEdge(Store!Evicted([order |-> order, index |-> index]), top)
<1>1. /\ order \in Seq(Sample) /\ index \in [Authorities -> Histories]
      /\ \A i, j \in 1 .. Len(order) : i < j => order[i].id < order[j].id
      /\ \A i \in 1 .. Len(order) : order[i].id < top
      /\ \A a \in Authorities, q \in {"static", "dynamic"} :
           /\ Sorted(index[a][q])
           /\ \A x : Holds(index[a][q], x) <=> Holds(order, x) /\ x.by = a /\ Store!Part(x) = q
  BY DEF GoodEdge
<1>2. PICK n \in Nat : n = Len(order) /\ n > 0
  BY <1>1
<1>3. PICK s \in Sample : s = Head(order) /\ s = order[1]
  BY <1>1, <1>2
<1>4. PICK b \in Authorities, q \in {"static", "dynamic"} : b = s.by /\ q = Store!Part(s)
  BY DEF Sample, Store!Part
<1>5. PICK xs \in Seq(Sample) : xs = index[b][q]
  BY <1>1, ListsHaveSamples
<1>6. 1 \in 1 .. n /\ Holds(order, s)
  BY <1>2, <1>3 DEF Holds
<1>7. Holds(xs, s)
  BY <1>1, <1>4, <1>5, <1>6
<1>8. ASSUME NEW i \in 1 .. n, NEW j \in 1 .. n, order[i].id = order[j].id PROVE i = j
  <2>1. order[i] \in Sample /\ order[j] \in Sample
    BY <1>1, <1>2
  <2>2. order[i].id \in Nat /\ order[j].id \in Nat
    BY <2>1 DEF Sample
  <2> QED BY <1>1, <1>2, <1>8, <2>2
<1>9. \A i, j \in 1 .. Len(xs) : xs[i].id = xs[j].id => xs[i] = xs[j]
  <2> SUFFICES ASSUME NEW i \in 1 .. Len(xs), NEW j \in 1 .. Len(xs), xs[i].id = xs[j].id
               PROVE  xs[i] = xs[j]
    OBVIOUS
  <2>1. Holds(order, xs[i]) /\ Holds(order, xs[j])
    BY <1>1, <1>5 DEF Holds
  <2>2. PICK u \in 1 .. n, v \in 1 .. n : order[u] = xs[i] /\ order[v] = xs[j]
    BY <1>2, <2>1 DEF Holds
  <2> QED BY <1>8, <2>2
<1>10. \A i, j \in 1 .. Len(xs) : xs[i].id = xs[j].id => i = j
  <2> SUFFICES ASSUME NEW i \in 1 .. Len(xs), NEW j \in 1 .. Len(xs), xs[i].id = xs[j].id, i # j
               PROVE  FALSE
    OBVIOUS
  <2>1. xs[i] = xs[j] /\ xs[i] \in Sample
    BY <1>9
  <2>2. Store!Precedes(xs[i], xs[j]) \/ Store!Precedes(xs[j], xs[i])
    BY <1>1, <1>5 DEF Sorted
  <2> QED BY <2>1, <2>2, PrecedesIsAnOrder
<1>11. PICK new \in Seq(Sample) : new = Store!Removed(xs, s) /\ Sorted(new)
                                  /\ \A x : Holds(new, x) <=> Holds(xs, x) /\ x # s
  BY <1>1, <1>5, <1>7, <1>10, RemovedStaysSorted
<1>12a. PICK changed : changed = Changed(index, b, q, new)
  OBVIOUS
<1>12. /\ changed \in [Authorities -> Histories]
      /\ changed[b][q] = new
      /\ \A a \in Authorities, r \in {"static", "dynamic"} :
           a # b \/ r # q => changed[a][r] = index[a][r]
  BY <1>1, <1>12a, IndexAt
<1>13a. PICK o : o = Tail(order)
  OBVIOUS
<1>13. /\ o \in Seq(Sample) /\ Len(o) = n - 1
       /\ \A i \in 1 .. n - 1 : o[i] = order[i + 1]
  BY <1>1, <1>2, <1>13a
<1>14. Store!Evicted([order |-> order, index |-> index]) = [order |-> o, index |-> changed]
  BY <1>3, <1>4, <1>5, <1>11, <1>12a, <1>13a DEF Store!Evicted, Changed
<1>15. ASSUME NEW x PROVE Holds(o, x) <=> Holds(order, x) /\ x # s
  <2>1. ASSUME NEW i \in 1 .. n - 1, o[i] = x PROVE Holds(order, x) /\ x # s
    <3>1. i + 1 \in 1 .. n /\ i + 1 # 1 /\ order[i + 1] = x
      BY <1>13, <2>1
    <3> QED BY <1>2, <1>3, <1>6, <1>8, <3>1 DEF Holds
  <2>2. ASSUME NEW i \in 1 .. n, order[i] = x, x # s PROVE \E j \in 1 .. n - 1 : o[j] = x
    <3>1. i # 1 /\ i - 1 \in 1 .. n - 1 /\ (i - 1) + 1 = i
      BY <1>3, <2>2
    <3> QED BY <1>13, <2>2, <3>1
  <2> QED BY <1>2, <1>13, <2>1, <2>2 DEF Holds
<1>16. \A i \in 1 .. n - 1 : i + 1 \in 1 .. n /\ o[i] = order[i + 1]
  BY <1>13
<1>17. \A i, j \in 1 .. n - 1 : i < j => o[i].id < o[j].id
  <2> SUFFICES ASSUME NEW i \in 1 .. n - 1, NEW j \in 1 .. n - 1, i < j
               PROVE  o[i].id < o[j].id
    OBVIOUS
  <2>1. i + 1 < j + 1
    OBVIOUS
  <2> QED BY <1>1, <1>2, <1>16, <2>1
<1>18. \A i \in 1 .. n - 1 : o[i].id < top
  BY <1>1, <1>2, <1>16
<1>19. ASSUME NEW a \in Authorities, NEW r \in {"static", "dynamic"}
       PROVE  /\ Sorted(changed[a][r])
              /\ \A x : Holds(changed[a][r], x) <=> Holds(o, x) /\ x.by = a /\ Store!Part(x) = r
  <2>1. CASE a = b /\ r = q
    BY <1>1, <1>4, <1>5, <1>11, <1>12, <1>15, <2>1
  <2>2. CASE a # b \/ r # q
    <3>1. changed[a][r] = index[a][r]
      BY <1>12, <2>2
    <3>2. ~(s.by = a /\ Store!Part(s) = r)
      BY <1>4, <2>2
    <3> QED BY <1>1, <1>15, <3>1, <3>2
  <2> QED BY <2>1, <2>2
<1>20. GoodEdge([order |-> o, index |-> changed], top)
  BY <1>12, <1>13, <1>17, <1>18, <1>19 DEF GoodEdge
<1> QED BY <1>14, <1>20

\* One more sample: the oldest leaves if there are too many.
LEMMA InsertedIsGood ==
  ASSUME NEW e, NEW top \in Nat, GoodEdge(e, top), NEW s \in Sample, s.id = top,
         NEW maximum \in Nat \ {0}, Len(e.order) <= maximum
  PROVE  LET f == Store!Inserted(e, s, maximum)
         IN  /\ GoodEdge(f, top + 1) /\ Len(f.order) <= maximum
             /\ f.order = Append(e.order, s) \/ f.order = Tail(Append(e.order, s))
<1>1. PICK order, index : order = e.order /\ index = e.index
  OBVIOUS
<1>2. order \in Seq(Sample) /\ GoodEdge([order |-> order, index |-> index], top)
  BY <1>1 DEF GoodEdge
<1>3. PICK o : o = Append(order, s)
  OBVIOUS
<1>4. PICK changed : changed = [index EXCEPT ![s.by][Store!Part(s)] = Store!InsertedInOrder(@, s)]
  OBVIOUS
<1>5. GoodEdge([order |-> o, index |-> changed], top + 1)
  BY <1>2, <1>3, <1>4, GrownIsGood
<1>6. /\ o \in Seq(Sample) /\ Len(o) = Len(order) + 1 /\ o # <<>>
      /\ Len(Tail(o)) = Len(order)
  BY <1>2, <1>3
<1>7. Store!Inserted(e, s, maximum) =
        IF Len(o) > maximum THEN Store!Evicted([order |-> o, index |-> changed])
        ELSE [order |-> o, index |-> changed]
  BY <1>1, <1>3, <1>4 DEF Store!Inserted
<1>8. CASE Len(o) > maximum
  <2>1. PICK f : f = Store!Evicted([order |-> o, index |-> changed])
    OBVIOUS
  <2>2. GoodEdge(f, top + 1)
    BY <1>5, <1>6, <2>1, EvictedIsGood
  <2>3. f.order = Tail(o)
    BY <2>1 DEF Store!Evicted
  <2>4. Store!Inserted(e, s, maximum) = f
    BY <1>7, <1>8, <2>1
  <2>5. Len(f.order) <= maximum
    BY <1>1, <1>2, <1>6, <2>3
  <2> QED BY <1>1, <1>3, <2>2, <2>3, <2>4, <2>5
<1>9. CASE ~(Len(o) > maximum)
  <2>1. PICK f : f = [order |-> o, index |-> changed]
    OBVIOUS
  <2>2. Store!Inserted(e, s, maximum) = f /\ f.order = o
    BY <1>7, <1>9, <2>1
  <2>3. Len(f.order) <= maximum
    BY <1>2, <1>6, <1>9, <2>2
  <2> QED BY <1>1, <1>3, <1>5, <2>1, <2>2, <2>3
<1> QED BY <1>8, <1>9

---------------------------------------------------------------------------
\* The samples retained of an authority "a" are older than its observation m or are m,
\* and m is still there as long as any of them is.
IsOf(s, m) ==
  /\ s.by = m.by /\ s.at = m.n
  /\ s.static = m.kind.static /\ s.usable = m.kind.usable
Kept(o, a, m) ==
  \A i \in 1 .. Len(o) : o[i].by = a =>
    /\ o[i].at < m.n \/ IsOf(o[i], m)
    /\ \E j \in i .. Len(o) : IsOf(o[j], m)
Absent(o, a) == \A i \in 1 .. Len(o) : o[i].by # a

LEMMA KeptWhenAnotherArrives ==
  ASSUME NEW o \in Seq(Sample), NEW s \in Sample, NEW a, s.by # a
  PROVE  /\ Absent(o, a) => Absent(Append(o, s), a)
         /\ \A m : Kept(o, a, m) => Kept(Append(o, s), a, m)
<1>1. PICK n \in Nat : n = Len(o)
  OBVIOUS
<1>2. PICK g : g = Append(o, s)
  OBVIOUS
<1>3. Len(g) = n + 1 /\ g[n + 1] = s /\ \A i \in 1 .. n : g[i] = o[i]
  BY <1>1, <1>2
<1>4. \A i \in 1 .. n + 1 : g[i].by = a => i \in 1 .. n
  <2>1. \A i \in 1 .. n + 1 : i \in 1 .. n \/ i = n + 1
    OBVIOUS
  <2> QED BY <1>3, <2>1
<1>5. Absent(o, a) => Absent(g, a)
  BY <1>1, <1>3, <1>4 DEF Absent
<1>6. ASSUME NEW m, Kept(o, a, m) PROVE Kept(g, a, m)
  <2> SUFFICES ASSUME NEW i \in 1 .. n + 1, g[i].by = a
               PROVE  /\ g[i].at < m.n \/ IsOf(g[i], m)
                      /\ \E j \in i .. n + 1 : IsOf(g[j], m)
    BY <1>3 DEF Kept
  <2>1. i \in 1 .. n /\ g[i] = o[i]
    BY <1>3, <1>4
  <2>2. PICK j \in i .. n : IsOf(o[j], m)
    BY <1>1, <1>6, <2>1 DEF Kept
  <2>3. j \in i .. n + 1 /\ j \in 1 .. n /\ g[j] = o[j]
    BY <1>3, <2>1
  <2>4. o[i].at < m.n \/ IsOf(o[i], m)
    BY <1>1, <1>6, <2>1 DEF Kept
  <2> QED BY <2>1, <2>2, <2>3, <2>4
<1> QED BY <1>2, <1>5, <1>6

LEMMA KeptWhenOneLeaves ==
  ASSUME NEW o \in Seq(Sample), o # <<>>, NEW a
  PROVE  /\ Absent(o, a) => Absent(Tail(o), a)
         /\ \A m : Kept(o, a, m) => Kept(Tail(o), a, m)
<1>1. PICK n \in Nat : n = Len(o) /\ n > 0
  OBVIOUS
<1>2. PICK g : g = Tail(o)
  OBVIOUS
<1>3. Len(g) = n - 1 /\ \A i \in 1 .. n - 1 : g[i] = o[i + 1] /\ i + 1 \in 1 .. n
  BY <1>1, <1>2
<1>4. Absent(o, a) => Absent(g, a)
  BY <1>1, <1>3 DEF Absent
<1>5. ASSUME NEW m, Kept(o, a, m) PROVE Kept(g, a, m)
  <2> SUFFICES ASSUME NEW i \in 1 .. n - 1, g[i].by = a
               PROVE  /\ g[i].at < m.n \/ IsOf(g[i], m)
                      /\ \E j \in i .. n - 1 : IsOf(g[j], m)
    BY <1>3 DEF Kept
  <2>1. i + 1 \in 1 .. n /\ g[i] = o[i + 1]
    BY <1>3
  <2>2. PICK j \in i + 1 .. n : IsOf(o[j], m)
    BY <1>1, <1>5, <2>1 DEF Kept
  <2>3. j - 1 \in i .. n - 1 /\ j - 1 \in 1 .. n - 1 /\ (j - 1) + 1 = j
    OBVIOUS
  <2>4. IsOf(g[j - 1], m)
    BY <1>3, <2>2, <2>3
  <2>5. o[i + 1].at < m.n \/ IsOf(o[i + 1], m)
    BY <1>1, <1>5, <2>1 DEF Kept
  <2> QED BY <2>1, <2>3, <2>4, <2>5
<1> QED BY <1>2, <1>4, <1>5

LEMMA KeptWhenItArrives ==
  ASSUME NEW o \in Seq(Sample), NEW s \in Sample, NEW m, IsOf(s, m), NEW a,
         \A i \in 1 .. Len(o) : o[i].by = a => o[i].at < m.n
  PROVE  Kept(Append(o, s), a, m)
<1>1. PICK n \in Nat : n = Len(o)
  OBVIOUS
<1>2. PICK g : g = Append(o, s)
  OBVIOUS
<1>3. Len(g) = n + 1 /\ g[n + 1] = s /\ \A i \in 1 .. n : g[i] = o[i]
  BY <1>1, <1>2
<1>4. ASSUME NEW i \in 1 .. n + 1, g[i].by = a
      PROVE  /\ g[i].at < m.n \/ IsOf(g[i], m)
             /\ \E j \in i .. n + 1 : IsOf(g[j], m)
  <2>1. n + 1 \in i .. n + 1 /\ IsOf(g[n + 1], m)
    BY <1>3
  <2>2. CASE i = n + 1 BY <2>1, <2>2
  <2>3. CASE i \in 1 .. n BY <1>1, <1>3, <1>4, <2>1, <2>3
  <2> QED BY <2>2, <2>3
<1> QED BY <1>2, <1>3, <1>4 DEF Kept

---------------------------------------------------------------------------
\* The inductive invariant of the store.
StoreTypes ==
  /\ boot \in [Authorities -> 1 .. MaxBoot]
  /\ sent \subseteq Store!Observation
  /\ latest \in [Authorities -> Store!Observation \cup {None}]
  /\ newest \in [Authorities -> Store!Observation \cup {None}]
  /\ history \in [Authorities -> Seq(Store!Observation)]
  /\ \A a \in Authorities : Len(history[a]) <= HistoryPerStream
  /\ accepted \in 0 .. MaxAccepted
  /\ Len(edge.order) <= TransformHistoryPerEdge

\* In its first boot nothing of an authority arrives that is older than what was
\* accepted of it.
NewestIsLatest ==
  \A a \in Authorities : boot[a] = 1 =>
    /\ \A m \in sent : m.by = a => m.boot = 1
    /\ latest[a] = newest[a]
    /\ newest[a] = None => Absent(edge.order, a)
    /\ newest[a] # None => /\ newest[a].by = a /\ newest[a].boot = 1
                           /\ Kept(edge.order, a, newest[a])

StoreInv == StoreTypes /\ GoodEdge(edge, accepted) /\ NewestIsLatest

LEMMA StoreInitially == Store!Init => StoreInv
<1> SUFFICES ASSUME Store!Init PROVE StoreInv OBVIOUS
<1>1. /\ boot = [a \in Authorities |-> 1] /\ sent = {} /\ accepted = 0
      /\ latest = [a \in Authorities |-> None] /\ newest = [a \in Authorities |-> None]
      /\ history = [a \in Authorities |-> <<>>] /\ edge = Store!EmptyEdge(Authorities)
  BY DEF Store!Init
<1>2. /\ edge.order = <<>> /\ edge.index = [a \in Authorities |-> [static |-> <<>>, dynamic |-> <<>>]]
  BY <1>1 DEF Store!EmptyEdge, Store!EmptyHistory
<1>3. <<>> \in Seq(Sample) /\ Len(<<>>) = 0 /\ <<>> \in Seq(Store!Observation)
  OBVIOUS
<1>4. StoreTypes
  BY <1>1, <1>2, <1>3, StoreBounds DEF StoreTypes
<1>5. ASSUME NEW a \in Authorities, NEW q \in {"static", "dynamic"} PROVE edge.index[a][q] = <<>>
  BY <1>2
<1>6. edge.index \in [Authorities -> Histories]
  BY <1>2, <1>3 DEF Histories
<1>7. GoodEdge(edge, accepted)
  BY <1>2, <1>3, <1>5, <1>6 DEF GoodEdge, Sorted, Holds
<1>8. NewestIsLatest
  BY <1>1, <1>2, <1>3 DEF NewestIsLatest, Absent
<1> QED BY <1>4, <1>7, <1>8 DEF StoreInv

LEMMA RestartKeeps ==
  ASSUME StoreInv, NEW b \in Authorities, Store!Restart(b)
  PROVE  StoreInv'
<1>1. /\ boot[b] < MaxBoot /\ boot' = [boot EXCEPT ![b] = boot[b] + 1]
      /\ UNCHANGED <<sent, latest, history, edge, accepted, newest>>
  BY DEF Store!Restart
<1>2. boot \in [Authorities -> 1 .. MaxBoot] /\ MaxBoot \in Nat
  BY StoreBounds DEF StoreInv, StoreTypes
<1>3. boot' \in [Authorities -> 1 .. MaxBoot]
  BY <1>1, <1>2
<1>4. \A a \in Authorities : boot'[a] = 1 => boot[a] = 1
  BY <1>1, <1>2
<1>5. StoreTypes'
  BY <1>1, <1>3 DEF StoreInv, StoreTypes
<1>6. GoodEdge(edge, accepted)'
  BY <1>1 DEF StoreInv
<1>7. NewestIsLatest'
  BY <1>1, <1>4 DEF StoreInv, NewestIsLatest
<1> QED BY <1>5, <1>6, <1>7 DEF StoreInv

LEMMA PublishedKeeps ==
  ASSUME StoreInv, NEW b \in Authorities, NEW kind \in Publishes[b], Store!Publish(b, kind)
  PROVE  StoreInv'
<1>1. PICK n \in 1 .. MaxSent :
        sent' = sent \cup {[by |-> b, boot |-> boot[b], n |-> n, kind |-> kind]}
  BY DEF Store!Publish
<1>2. UNCHANGED <<boot, latest, history, edge, accepted, newest>>
  BY DEF Store!Publish
<1>3. PICK m : m = [by |-> b, boot |-> boot[b], n |-> n, kind |-> kind]
  OBVIOUS
<1>4. boot[b] \in 1 .. MaxBoot /\ kind \in Store!Kinds
  BY DEF StoreInv, StoreTypes, Store!Kinds
<1>5. m \in Store!Observation /\ m.by = b /\ m.boot = boot[b]
  BY <1>3, <1>4 DEF Store!Observation
<1>6. sent' = sent \cup {m}
  BY <1>1, <1>3
<1>7. StoreTypes'
  BY <1>2, <1>5, <1>6 DEF StoreInv, StoreTypes
<1>8. GoodEdge(edge, accepted)'
  BY <1>2 DEF StoreInv
<1>9. ASSUME NEW a \in Authorities, boot'[a] = 1, NEW x \in sent', x.by = a PROVE x.boot = 1
  <2>1. CASE x = m BY <1>2, <1>5, <1>9, <2>1
  <2>2. CASE x \in sent BY <1>2, <1>9, <2>2 DEF StoreInv, NewestIsLatest
  <2> QED BY <1>6, <2>1, <2>2
<1>10. NewestIsLatest'
  BY <1>2, <1>9 DEF StoreInv, NewestIsLatest
<1> QED BY <1>7, <1>8, <1>10 DEF StoreInv

\* The sample of an observation.
LEMMA SampleIsTyped ==
  ASSUME NEW m \in Store!Observation, NEW id \in Nat
  PROVE  /\ Store!SampleOf(m, id) \in Sample
         /\ Store!SampleOf(m, id).id = id
         /\ IsOf(Store!SampleOf(m, id), m)
<1>1. m.by \in Authorities /\ m.n \in 1 .. MaxSent /\ m.kind \in Store!Kinds
  BY DEF Store!Observation
<1>2. m.n \in Nat
  BY <1>1
<1>3. PICK a \in Authorities : m.kind \in Publishes[a]
  BY <1>1 DEF Store!Kinds
<1>4. m.kind \in [static : BOOLEAN, usable : BOOLEAN, epoch : Nat]
  BY <1>3, SamplesAreKinds
<1>5. m.kind.static \in BOOLEAN /\ m.kind.usable \in BOOLEAN /\ m.kind.epoch \in Nat
  BY <1>4
<1>6. Store!SampleOf(m, id) =
        [by |-> m.by, at |-> m.n, id |-> id, static |-> m.kind.static,
         usable |-> m.kind.usable, epoch |-> m.kind.epoch]
  BY DEF Store!SampleOf
<1> QED BY <1>1, <1>2, <1>5, <1>6 DEF Sample, IsOf

LEMMA RecentIsShort ==
  ASSUME NEW h \in Seq(Store!Observation), Len(h) <= HistoryPerStream, NEW m \in Store!Observation
  PROVE  /\ Store!Recent(Append(h, m)) \in Seq(Store!Observation)
         /\ Len(Store!Recent(Append(h, m))) <= HistoryPerStream
<1>1. PICK g : g = Append(h, m)
  OBVIOUS
<1>2. g \in Seq(Store!Observation) /\ Len(g) = Len(h) + 1 /\ Len(g) \in Nat /\ g # <<>>
  BY <1>1
<1>3. Tail(g) \in Seq(Store!Observation) /\ Len(Tail(g)) = Len(h)
  BY <1>2
<1>4. HistoryPerStream \in Nat
  BY StoreBounds
<1> QED BY <1>1, <1>2, <1>3, <1>4 DEF Store!Recent

LEMMA AcceptKeeps ==
  ASSUME StoreInv, NEW m \in sent, Store!Accept(m)
  PROVE  StoreInv'
<1>1. /\ ~Store!Passed(m) /\ accepted < MaxAccepted /\ accepted' = accepted + 1
      /\ latest' = [latest EXCEPT ![m.by] = m]
      /\ history' = [history EXCEPT ![m.by] = Store!Recent(Append(history[m.by], m))]
      /\ edge' = Store!Inserted(edge, Store!SampleOf(m, accepted), TransformHistoryPerEdge)
      /\ newest' = [newest EXCEPT ![m.by] =
                      IF newest[m.by] = None \/ newest[m.by].n < m.n THEN m ELSE newest[m.by]]
      /\ UNCHANGED <<boot, sent>>
  BY DEF Store!Accept
<1>2. m \in Store!Observation /\ m.by \in Authorities /\ m.n \in Nat
  BY DEF StoreInv, StoreTypes, Store!Observation
<1>3. accepted \in Nat /\ accepted + 1 \in 0 .. MaxAccepted /\ TransformHistoryPerEdge \in Nat \ {0}
  BY <1>1, StoreBounds DEF StoreInv, StoreTypes
<1>4. PICK b \in Authorities : b = m.by
  BY <1>2
<1>5. PICK s \in Sample : /\ s = Store!SampleOf(m, accepted) /\ s.id = accepted
                          /\ IsOf(s, m) /\ s.by = b
  BY <1>2, <1>3, <1>4, SampleIsTyped DEF IsOf
<1>a. PICK o \in Seq(Sample) : o = edge.order
  BY DEF StoreInv, GoodEdge
<1>6. PICK g : o = edge.order /\ g = Append(o, s)
  BY <1>a
<1>7. /\ GoodEdge(edge', accepted + 1) /\ Len(edge'.order) <= TransformHistoryPerEdge
      /\ edge'.order = g \/ edge'.order = Tail(g)
  <2>1. GoodEdge(edge, accepted) /\ Len(edge.order) <= TransformHistoryPerEdge
    BY DEF StoreInv, StoreTypes
  <2>2. PICK f : f = Store!Inserted(edge, s, TransformHistoryPerEdge)
    OBVIOUS
  <2>3. /\ GoodEdge(f, accepted + 1) /\ Len(f.order) <= TransformHistoryPerEdge
        /\ f.order = Append(edge.order, s) \/ f.order = Tail(Append(edge.order, s))
    BY <1>3, <1>5, <2>1, <2>2, InsertedIsGood
  <2>4. edge' = f
    BY <1>1, <1>5, <2>2
  <2> QED BY <1>6, <2>3, <2>4
<1>8. g \in Seq(Sample) /\ g # <<>>
  BY <1>6
<1>9. /\ latest \in [Authorities -> Store!Observation \cup {None}]
      /\ newest \in [Authorities -> Store!Observation \cup {None}]
      /\ history \in [Authorities -> Seq(Store!Observation)]
      /\ \A a \in Authorities : Len(history[a]) <= HistoryPerStream
      /\ boot \in [Authorities -> 1 .. MaxBoot] /\ sent \subseteq Store!Observation
  BY DEF StoreInv, StoreTypes
<1>10. /\ latest' \in [Authorities -> Store!Observation \cup {None}]
       /\ newest' \in [Authorities -> Store!Observation \cup {None}]
       /\ latest'[b] = m
       /\ newest'[b] = IF newest[b] = None \/ newest[b].n < m.n THEN m ELSE newest[b]
       /\ \A a \in Authorities : a # b => latest'[a] = latest[a] /\ newest'[a] = newest[a]
  BY <1>1, <1>2, <1>4, <1>9
<1>11. /\ history' \in [Authorities -> Seq(Store!Observation)]
       /\ \A a \in Authorities : Len(history'[a]) <= HistoryPerStream
  <2>1. PICK h : h = Store!Recent(Append(history[b], m))
    OBVIOUS
  <2>2. h \in Seq(Store!Observation) /\ Len(h) <= HistoryPerStream
    BY <1>2, <1>9, <2>1, RecentIsShort
  <2>3. history' = [history EXCEPT ![b] = h]
    BY <1>1, <1>4, <2>1
  <2> QED BY <1>9, <2>2, <2>3
<1>12. StoreTypes'
  BY <1>1, <1>3, <1>7, <1>9, <1>10, <1>11 DEF StoreTypes
<1>13. GoodEdge(edge, accepted)'
  BY <1>1, <1>7
<1>14. ASSUME NEW a \in Authorities, boot'[a] = 1
       PROVE  /\ \A x \in sent' : x.by = a => x.boot = 1
              /\ latest'[a] = newest'[a]
              /\ newest'[a] = None => Absent(edge'.order, a)
              /\ newest'[a] # None => /\ newest'[a].by = a /\ newest'[a].boot = 1
                                      /\ Kept(edge'.order, a, newest'[a])
  <2>1. /\ \A x \in sent : x.by = a => x.boot = 1
        /\ latest[a] = newest[a]
        /\ newest[a] = None => Absent(o, a)
        /\ newest[a] # None => /\ newest[a].by = a /\ newest[a].boot = 1
                               /\ Kept(o, a, newest[a])
    BY <1>1, <1>6, <1>14 DEF StoreInv, NewestIsLatest
  <2>2. CASE a # b
    <3>1. latest'[a] = latest[a] /\ newest'[a] = newest[a] /\ s.by # a
      BY <1>5, <1>10, <2>2
    <3>2. newest[a] = None => Absent(g, a)
      BY <1>6, <2>1, <3>1, KeptWhenAnotherArrives
    <3>3. newest[a] # None => Kept(g, a, newest[a])
      BY <1>6, <2>1, <3>1, KeptWhenAnotherArrives
    <3>4. newest[a] = None => Absent(edge'.order, a)
      BY <1>7, <1>8, <3>2, KeptWhenOneLeaves
    <3>5. newest[a] # None => Kept(edge'.order, a, newest[a])
      BY <1>7, <1>8, <3>3, KeptWhenOneLeaves
    <3> QED BY <1>1, <2>1, <3>1, <3>4, <3>5
  <2>3. CASE a = b
    <3>1. m.by = a /\ m.boot = 1 /\ m # None
      BY <1>2, <1>4, <2>1, <2>3, NoneIsNothing
    <3>2. newest[a] # None => newest[a].n < m.n /\ newest[a].n \in Nat
      <4> SUFFICES ASSUME newest[a] # None PROVE newest[a].n < m.n /\ newest[a].n \in Nat
        OBVIOUS
      <4>1. newest[a] \in Store!Observation /\ latest[a] = newest[a] /\ latest[a].boot = 1
        BY <1>9, <2>1
      <4>2. newest[a].n \in Nat
        BY <4>1 DEF Store!Observation
      <4> QED BY <1>1, <1>2, <2>1, <3>1, <4>1, <4>2 DEF Store!Passed
    <3>3. newest'[a] = m /\ latest'[a] = m
      BY <1>10, <2>3, <3>2
    <3>4. ASSUME NEW i \in 1 .. Len(o), o[i].by = a PROVE o[i].at < m.n
      <4>1. newest[a] # None /\ Kept(o, a, newest[a])
        BY <2>1, <3>4 DEF Absent
      <4>2. o[i].at < newest[a].n \/ o[i].at = newest[a].n
        BY <3>4, <4>1 DEF Kept, IsOf
      <4>3. o[i] \in Sample
        BY <1>6
      <4>4. o[i].at \in Nat
        BY <4>3 DEF Sample
      <4> QED BY <1>2, <3>2, <4>1, <4>2, <4>4
    <3>5. Kept(g, a, m)
      BY <1>5, <1>6, <3>4, KeptWhenItArrives
    <3>6. Kept(edge'.order, a, m)
      BY <1>7, <1>8, <3>5, KeptWhenOneLeaves
    <3> QED BY <1>1, <2>1, <3>1, <3>3, <3>6
  <2> QED BY <2>2, <2>3
<1>15. NewestIsLatest'
  BY <1>14 DEF NewestIsLatest
<1> QED BY <1>12, <1>13, <1>15 DEF StoreInv

LEMMA StoreStep == StoreInv /\ [Store!Next]_Store!vars => StoreInv'
<1> SUFFICES ASSUME StoreInv, [Store!Next]_Store!vars PROVE StoreInv' OBVIOUS
<1>1. CASE UNCHANGED Store!vars
  BY <1>1 DEF Store!vars, StoreInv, StoreTypes, NewestIsLatest
<1>2. ASSUME NEW a \in Authorities, Store!Restart(a) PROVE StoreInv'
  BY <1>2, RestartKeeps
<1>3. ASSUME NEW a \in Authorities, NEW kind \in Publishes[a], Store!Publish(a, kind) PROVE StoreInv'
  BY <1>3, PublishedKeeps
<1>4. ASSUME NEW m \in sent, Store!Accept(m) PROVE StoreInv'
  BY <1>4, AcceptKeeps
<1> QED BY <1>1, <1>2, <1>3, <1>4 DEF Store!Next

---------------------------------------------------------------------------
LEMMA HeldIsElement ==
  ASSUME NEW xs \in Seq(Sample), NEW s
  PROVE  s \in Store!Elements(xs) <=> Holds(xs, s)
BY DEF Store!Elements, Holds

LEMMA IndexFollows == StoreInv => Store!IndexIsTheOrder
<1> SUFFICES ASSUME StoreInv, NEW a \in Authorities, NEW q \in {"static", "dynamic"},
                    NEW samples, samples = edge.index[a][q]
             PROVE  /\ Store!Elements(samples) =
                         {s \in Store!Elements(edge.order) : s.by = a /\ Store!Part(s) = q}
                    /\ \A i, j \in DOMAIN samples : i < j => Store!Precedes(samples[i], samples[j])
  BY DEF Store!IndexIsTheOrder
<1>1. edge.order \in Seq(Sample) /\ samples \in Seq(Sample)
  BY ListsHaveSamples DEF StoreInv, GoodEdge
<1>2. Sorted(samples) /\ \A s : Holds(samples, s) <=> Holds(edge.order, s) /\ s.by = a /\ Store!Part(s) = q
  BY DEF StoreInv, GoodEdge
<1>3. \A s : s \in Store!Elements(samples) <=> s \in Store!Elements(edge.order) /\ s.by = a /\ Store!Part(s) = q
  BY <1>1, <1>2, HeldIsElement
<1>4. DOMAIN samples = 1 .. Len(samples)
  BY <1>1
<1> QED BY <1>2, <1>3, <1>4 DEF Sorted

\* What an authority says when none, or only static samples of it, are retained.
LEMMA NothingIsSilent ==
  ASSUME NEW at, NEW limit, NEW epochs
  PROVE  Store!DynamicAnswer(<<>>, at, limit, epochs).samples = {}
<1>1. DOMAIN <<>> = {}
  OBVIOUS
<1>2. {i \in DOMAIN <<>> : <<>>[i].usable /\ <<>>[i].epoch \in epochs} = {}
  BY <1>1
<1> QED BY <1>2 DEF Store!DynamicAnswer, Store!Silent

LEMMA WithdrawalFollows == StoreInv => Store!WithdrawalHolds
<1> SUFFICES ASSUME StoreInv, NEW a \in Authorities, boot[a] = 1, newest[a] # None,
                    newest[a].kind.static, ~newest[a].kind.usable, NEW at \in 1 .. MaxSent,
                    NEW limit, NEW epochs
             PROVE  Store!Answer(edge.index[a], at, limit, epochs).samples = {}
  BY DEF Store!WithdrawalHolds
<1>1. PICK o \in Seq(Sample) : o = edge.order
  BY DEF StoreInv, GoodEdge
<1>2. PICK m : m = newest[a]
  OBVIOUS
<1>3. m.by = a /\ Kept(o, a, m) /\ m.kind.static /\ ~m.kind.usable
  BY <1>1, <1>2 DEF StoreInv, NewestIsLatest
<1>4. PICK xs \in Seq(Sample), ys \in Seq(Sample) :
        xs = edge.index[a]["static"] /\ ys = edge.index[a]["dynamic"]
  BY ListsHaveSamples DEF StoreInv, GoodEdge
<1>5. /\ Sorted(xs)
      /\ \A s : Holds(xs, s) <=> Holds(o, s) /\ s.by = a /\ Store!Part(s) = "static"
      /\ \A s : Holds(ys, s) <=> Holds(o, s) /\ s.by = a /\ Store!Part(s) = "dynamic"
  BY <1>1, <1>4 DEF StoreInv, GoodEdge
<1>6. CASE \E i \in 1 .. Len(o) : o[i].by = a
  <2>1. PICK j \in 1 .. Len(o) : IsOf(o[j], m)
    BY <1>3, <1>6 DEF Kept
  <2>2. Holds(xs, o[j])
    BY <1>3, <1>5, <2>1 DEF Holds, IsOf, Store!Part
  <2>3. PICK n \in Nat : n = Len(xs)
    OBVIOUS
  <2>4. PICK k \in 1 .. n : xs[k] = o[j]
    BY <2>2, <2>3 DEF Holds
  <2>5. n \in 1 .. n /\ xs # <<>> /\ xs[n] \in Sample /\ xs[k] \in Sample
    BY <2>3
  <2>6. Holds(o, xs[n]) /\ xs[n].by = a
    BY <1>5, <2>3, <2>5 DEF Holds
  <2>7. xs[n].at < m.n \/ IsOf(xs[n], m)
    BY <1>3, <2>6 DEF Holds, Kept
  <2>8. k # n => Store!Precedes(xs[k], xs[n])
    BY <1>5, <2>3, <2>5 DEF Sorted
  <2>9. xs[k].at = m.n /\ xs[k].at \in Nat /\ xs[n].at \in Nat
    BY <2>1, <2>4, <2>5 DEF IsOf, Sample
  <2>10. IsOf(xs[n], m)
    BY <2>1, <2>4, <2>7, <2>8, <2>9 DEF Store!Precedes
  <2>11. Store!Last(xs) = xs[n] /\ ~xs[n].usable
    BY <1>3, <2>3, <2>10 DEF Store!Last, IsOf
  <2>12. Store!StaticAnswer(edge.index[a]) = {}
    <3>1. edge.index[a].static = xs
      BY <1>4
    <3> QED BY <2>11, <3>1 DEF Store!StaticAnswer
  <2>13. edge.index[a].static # <<>>
    BY <1>4, <2>5
  <2> QED BY <2>12, <2>13 DEF Store!Answer
<1>7. CASE \A i \in 1 .. Len(o) : o[i].by # a
  <2>1. ASSUME NEW s PROVE ~Holds(xs, s) /\ ~Holds(ys, s)
    <3>1. Holds(o, s) => s.by # a
      BY <1>7 DEF Holds
    <3> QED BY <1>5, <3>1
  <2>2. xs = <<>> /\ ys = <<>>
    <3>1. ASSUME NEW zs \in Seq(Sample), \A s : ~Holds(zs, s) PROVE zs = <<>>
      <4>1. Len(zs) = 0 \/ 1 \in 1 .. Len(zs)
        OBVIOUS
      <4>2. 1 \in 1 .. Len(zs) => Holds(zs, zs[1])
        BY DEF Holds
      <4> QED BY <3>1, <4>1, <4>2
    <3> QED BY <2>1, <3>1
  <2>3. edge.index[a].static = <<>> /\ edge.index[a].dynamic = <<>>
    BY <1>4, <2>2
  <2> QED BY <2>3, NothingIsSilent DEF Store!Answer
<1> QED BY <1>6, <1>7

\* The samples that may answer, before the instant and after it, and what becomes of them.
Eligible(xs, epochs) == {i \in DOMAIN xs : xs[i].usable /\ xs[i].epoch \in epochs}
Before(xs, at, epochs) == {i \in Eligible(xs, epochs) : xs[i].at <= at}
After(xs, at, epochs) == {i \in Eligible(xs, epochs) : xs[i].at >= at}
LeftOf(xs, at, epochs) == xs[Store!Max(Before(xs, at, epochs))]
RightOf(xs, at, epochs) == xs[Store!Min(After(xs, at, epochs))]

LEMMA AnswerShape ==
  ASSUME NEW xs, NEW at, NEW limit, NEW epochs
  PROVE  LET used == Store!DynamicAnswer(xs, at, limit, epochs).samples
             l == LeftOf(xs, at, epochs)
             r == RightOf(xs, at, epochs)
         IN  \/ /\ used = {l, r} /\ Store!Bracketed(l, r)
                /\ Before(xs, at, epochs) # {} /\ After(xs, at, epochs) # {}
             \/ used = {l} /\ Before(xs, at, epochs) # {}
             \/ used = {r} /\ After(xs, at, epochs) # {}
             \/ used = {}
<1>0. PICK before, after, left, right :
        /\ before = Before(xs, at, epochs) /\ after = After(xs, at, epochs)
        /\ left = xs[Store!Max(before)] /\ right = xs[Store!Min(after)]
        /\ left = LeftOf(xs, at, epochs) /\ right = RightOf(xs, at, epochs)
  BY DEF LeftOf, RightOf
<1>1. Store!DynamicAnswer(xs, at, limit, epochs) =
        IF before # {} /\ after # {} /\ Store!Bracketed(left, right)
        THEN [samples |-> {left, right}, reach |-> 0]
        ELSE CASE before # {} -> IF at - left.at > limit THEN Store!Silent
                                 ELSE [samples |-> {left}, reach |-> at - left.at]
               [] before = {} /\ after # {} -> IF right.at - at > limit THEN Store!Silent
                                 ELSE [samples |-> {right}, reach |-> right.at - at]
               [] OTHER -> Store!Silent
  BY <1>0 DEF Store!DynamicAnswer, Eligible, Before, After
<1>2. CASE before # {} /\ after # {} /\ Store!Bracketed(left, right)
  BY <1>0, <1>1, <1>2
<1>3. CASE before # {} /\ ~(after # {} /\ Store!Bracketed(left, right))
  BY <1>0, <1>1, <1>3 DEF Store!Silent
<1>4. CASE before = {} /\ after # {}
  BY <1>0, <1>1, <1>4 DEF Store!Silent
<1>5. CASE before = {} /\ after = {}
  BY <1>0, <1>1, <1>5 DEF Store!Silent
<1> QED BY <1>2, <1>3, <1>4, <1>5

\* The sides of an answer are positions of samples that may be used.
LEMMA AnswerSides ==
  ASSUME NEW samples \in Seq(Sample), NEW at \in Nat, NEW epochs
  PROVE  \E n \in Nat : \E eligible, before, after \in SUBSET (1 .. n) :
           /\ n = Len(samples)
           /\ eligible = Eligible(samples, epochs)
           /\ before = Before(samples, at, epochs) /\ after = After(samples, at, epochs)
           /\ before # {} => /\ Store!Max(before) \in before
                             /\ \A i \in before : Store!Max(before) >= i
           /\ after # {} => /\ Store!Min(after) \in after
                            /\ \A i \in after : Store!Min(after) <= i
<1>1. PICK n \in Nat : n = Len(samples) /\ DOMAIN samples = 1 .. n
  OBVIOUS
<1>2. PICK eligible \in SUBSET (1 .. n) : eligible = Eligible(samples, epochs)
  BY <1>1 DEF Eligible
<1>3. PICK before \in SUBSET (1 .. n) : before = Before(samples, at, epochs)
  BY <1>2 DEF Before
<1>4. PICK after \in SUBSET (1 .. n) : after = After(samples, at, epochs)
  BY <1>2 DEF After
<1>5. before # {} => Store!Max(before) \in before /\ \A i \in before : Store!Max(before) >= i
  BY LastPosition
<1>6. after # {} => Store!Min(after) \in after /\ \A i \in after : Store!Min(after) <= i
  <2>1. after \in SUBSET Nat
    OBVIOUS
  <2> QED BY <2>1, LeastPosition
<1> QED BY <1>1, <1>2, <1>3, <1>4, <1>5, <1>6

LEMMA AnswersBlendNothing ==
  ASSUME NEW samples \in Seq(Sample), NEW at \in Nat, NEW limit \in Nat, NEW epochs
  PROVE  \A s, t \in Store!DynamicAnswer(samples, at, limit, epochs).samples :
           s.usable /\ s.epoch = t.epoch
<1>1. PICK n \in Nat : \E eligible, before, after \in SUBSET (1 .. n) :
           /\ eligible = Eligible(samples, epochs)
           /\ before = Before(samples, at, epochs) /\ after = After(samples, at, epochs)
           /\ before # {} => Store!Max(before) \in before
           /\ after # {} => Store!Min(after) \in after
  BY AnswerSides
<1>2. PICK eligible \in SUBSET (1 .. n), before \in SUBSET (1 .. n), after \in SUBSET (1 .. n) :
           /\ eligible = Eligible(samples, epochs)
           /\ before = Before(samples, at, epochs) /\ after = After(samples, at, epochs)
           /\ before # {} => Store!Max(before) \in before
           /\ after # {} => Store!Min(after) \in after
  BY <1>1
<1>3. PICK left, right, used :
           /\ left = samples[Store!Max(before)] /\ left = LeftOf(samples, at, epochs)
           /\ right = samples[Store!Min(after)] /\ right = RightOf(samples, at, epochs)
           /\ used = Store!DynamicAnswer(samples, at, limit, epochs).samples
  BY <1>2 DEF LeftOf, RightOf
<1>4. /\ before # {} => left.usable
      /\ after # {} => right.usable
  BY <1>2, <1>3 DEF Before, After, Eligible
<1>5. \/ used = {left, right} /\ before # {} /\ after # {} /\ Store!Bracketed(left, right)
      \/ used = {left} /\ before # {}
      \/ used = {right} /\ after # {}
      \/ used = {}
  BY <1>2, <1>3, AnswerShape
<1> QED BY <1>3, <1>4, <1>5 DEF Store!Bracketed

LEMMA EpochsFollow == StoreInv => Store!EpochsAreNotBlended
<1> SUFFICES ASSUME StoreInv, NEW a \in Authorities, NEW at \in 1 .. MaxSent, NEW epochs,
                    NEW s \in Store!Answer(edge.index[a], at, MaxSent, epochs).samples,
                    NEW t \in Store!Answer(edge.index[a], at, MaxSent, epochs).samples
             PROVE  s.usable /\ s.epoch = t.epoch
  BY DEF Store!EpochsAreNotBlended
<1>1. at \in Nat /\ MaxSent \in Nat
  BY StoreBounds
<1>2. PICK ys \in Seq(Sample) : ys = edge.index[a]["dynamic"]
  BY ListsHaveSamples DEF StoreInv, GoodEdge
<1>3. CASE edge.index[a].static # <<>>
  <2>1. s \in Store!StaticAnswer(edge.index[a]) /\ t \in Store!StaticAnswer(edge.index[a])
    BY <1>3 DEF Store!Answer
  <2> QED BY <2>1 DEF Store!StaticAnswer
<1>4. CASE edge.index[a].static = <<>>
  <2>1. /\ s \in Store!DynamicAnswer(ys, at, MaxSent, epochs).samples
        /\ t \in Store!DynamicAnswer(ys, at, MaxSent, epochs).samples
    BY <1>2, <1>4 DEF Store!Answer
  <2>2. \A x, y \in Store!DynamicAnswer(ys, at, MaxSent, epochs).samples :
          x.usable /\ x.epoch = y.epoch
    BY <1>1, AnswersBlendNothing
  <2> QED BY <2>1, <2>2
<1> QED BY <1>3, <1>4

\* Between the instant that is asked for and a sample that answers for an authority, none
\* that might have answered is retained.
AnswersAreNearest ==
  \A a \in Authorities, at \in Nat, limit \in Nat, epochs \in SUBSET Nat :
    edge.index[a].static = <<>> =>
      \A s \in Store!Answer(edge.index[a], at, limit, epochs).samples,
         x \in Store!Elements(edge.order) :
        x.by = a /\ x.usable /\ x.epoch \in epochs =>
          ~(s.at < x.at /\ x.at < at) /\ ~(at < x.at /\ x.at < s.at)

LEMMA NearestAnswer ==
  ASSUME NEW samples \in Seq(Sample), Sorted(samples), NEW at \in Nat, NEW limit \in Nat, NEW epochs
  PROVE  \A s \in Store!DynamicAnswer(samples, at, limit, epochs).samples, i \in 1 .. Len(samples) :
           samples[i].usable /\ samples[i].epoch \in epochs =>
             ~(s.at < samples[i].at /\ samples[i].at < at) /\ ~(at < samples[i].at /\ samples[i].at < s.at)
<1>1. PICK n \in Nat : \E eligible, before, after \in SUBSET (1 .. n) :
           /\ n = Len(samples)
           /\ eligible = Eligible(samples, epochs)
           /\ before = Before(samples, at, epochs) /\ after = After(samples, at, epochs)
           /\ before # {} => /\ Store!Max(before) \in before
                             /\ \A i \in before : Store!Max(before) >= i
           /\ after # {} => /\ Store!Min(after) \in after
                            /\ \A i \in after : Store!Min(after) <= i
  BY AnswerSides
<1>2. PICK eligible \in SUBSET (1 .. n), before \in SUBSET (1 .. n), after \in SUBSET (1 .. n) :
           /\ eligible = Eligible(samples, epochs)
           /\ before = Before(samples, at, epochs) /\ after = After(samples, at, epochs)
           /\ before # {} => /\ Store!Max(before) \in before
                             /\ \A i \in before : Store!Max(before) >= i
           /\ after # {} => /\ Store!Min(after) \in after
                            /\ \A i \in after : Store!Min(after) <= i
  BY <1>1
<1>3. before = {i \in eligible : samples[i].at <= at}
  BY <1>2 DEF Before
<1>4. after = {i \in eligible : samples[i].at >= at}
  BY <1>2 DEF After
<1>5. PICK left, right, used :
           /\ left = samples[Store!Max(before)] /\ left = LeftOf(samples, at, epochs)
           /\ right = samples[Store!Min(after)] /\ right = RightOf(samples, at, epochs)
           /\ used = Store!DynamicAnswer(samples, at, limit, epochs).samples
  BY <1>2 DEF LeftOf, RightOf
<1>6. \A i \in 1 .. n : samples[i].at \in Nat
  <2>1. \A i \in 1 .. n : samples[i] \in Sample
    BY <1>1
  <2> QED BY <2>1 DEF Sample
<1>7. \A i, j \in 1 .. n : i <= j => samples[i].at <= samples[j].at
  BY <1>1, <1>6 DEF Sorted, Store!Precedes
<1>8. ASSUME before # {}, NEW i \in eligible
      PROVE  ~(left.at < samples[i].at /\ samples[i].at < at) /\ ~(at < left.at)
  <2>1. PICK k \in before : k = Store!Max(before) /\ \A j \in before : k >= j
    BY <1>2, <1>8
  <2>2. samples[k].at <= at /\ left = samples[k] /\ k \in 1 .. n /\ i \in 1 .. n
    BY <1>3, <1>5, <2>1
  <2>3. samples[i].at < at => samples[i].at <= samples[k].at
    BY <1>3, <1>6, <1>7, <2>1, <2>2
  <2> QED BY <1>6, <2>2, <2>3
<1>9. ASSUME after # {}, NEW i \in eligible
      PROVE  ~(at < samples[i].at /\ samples[i].at < right.at) /\ ~(right.at < at)
  <2>1. PICK k \in after : k = Store!Min(after) /\ \A j \in after : k <= j
    BY <1>2, <1>9
  <2>2. samples[k].at >= at /\ right = samples[k] /\ k \in 1 .. n /\ i \in 1 .. n
    BY <1>4, <1>5, <2>1
  <2>3. samples[i].at > at => samples[k].at <= samples[i].at
    BY <1>4, <1>6, <1>7, <2>1, <2>2
  <2> QED BY <1>6, <2>2, <2>3
<1>10. \A s \in used : (s = left /\ before # {}) \/ (s = right /\ after # {})
  <2>1. \/ used = {left, right} /\ before # {} /\ after # {} /\ Store!Bracketed(left, right)
        \/ used = {left} /\ before # {}
        \/ used = {right} /\ after # {}
        \/ used = {}
    BY <1>2, <1>5, AnswerShape
  <2> QED BY <2>1
<1>11. ASSUME NEW s \in used, NEW i \in eligible
       PROVE  ~(s.at < samples[i].at /\ samples[i].at < at) /\ ~(at < samples[i].at /\ samples[i].at < s.at)
  <2>0. i \in 1 .. n /\ samples[i].at \in Nat
    BY <1>6
  <2>1. CASE s = left /\ before # {}
    <3>1. left.at \in Nat
      BY <1>2, <1>5, <1>6, <2>1
    <3> QED BY <1>8, <2>0, <2>1, <3>1
  <2>2. CASE s = right /\ after # {}
    <3>1. right.at \in Nat
      BY <1>2, <1>5, <1>6, <2>2
    <3> QED BY <1>9, <2>0, <2>2, <3>1
  <2> QED BY <1>10, <2>1, <2>2
<1>12. ASSUME NEW i \in 1 .. Len(samples), samples[i].usable, samples[i].epoch \in epochs
       PROVE  i \in eligible
  <2>1. i \in DOMAIN samples
    OBVIOUS
  <2> QED BY <1>2, <1>12, <2>1 DEF Eligible
<1> QED BY <1>5, <1>11, <1>12

LEMMA NearestFollows == StoreInv => AnswersAreNearest
<1> SUFFICES ASSUME StoreInv, NEW a \in Authorities, NEW at \in Nat, NEW limit \in Nat,
                    NEW epochs \in SUBSET Nat, edge.index[a].static = <<>>,
                    NEW s \in Store!Answer(edge.index[a], at, limit, epochs).samples,
                    NEW x \in Store!Elements(edge.order), x.by = a, x.usable, x.epoch \in epochs
             PROVE  ~(s.at < x.at /\ x.at < at) /\ ~(at < x.at /\ x.at < s.at)
  BY DEF AnswersAreNearest
<1>1. PICK ys \in Seq(Sample) : ys = edge.index[a]["dynamic"]
  BY ListsHaveSamples DEF StoreInv, GoodEdge
<1>2. s \in Store!DynamicAnswer(ys, at, limit, epochs).samples
  BY <1>1 DEF Store!Answer
<1>3. edge.order \in Seq(Sample) /\ edge.index \in [Authorities -> Histories]
  BY DEF StoreInv, GoodEdge
<1>4. Holds(edge.order, x)
  BY <1>3, HeldIsElement
<1>5. Store!Part(x) \in {"static", "dynamic"}
  BY DEF Store!Part
<1>6. Sorted(ys) /\ \A q \in {"static", "dynamic"} : Store!Part(x) = q => Holds(edge.index[a][q], x)
  BY <1>1, <1>4 DEF StoreInv, GoodEdge
<1>7. edge.index[a]["static"] = <<>>
  OBVIOUS
<1>8. ~Holds(edge.index[a]["static"], x)
  BY <1>7 DEF Holds
<1>9. Holds(ys, x)
  BY <1>1, <1>5, <1>6, <1>8
<1>10. PICK i \in 1 .. Len(ys) : ys[i] = x
  BY <1>9 DEF Holds
<1> QED BY <1>1, <1>2, <1>6, <1>10, NearestAnswer

LEMMA StoreTypesFollow == StoreInv => Store!TypeOK
BY DEF StoreInv, StoreTypes, Store!TypeOK

\* Every variable of the store has its type, and no stream's history and no edge keeps
\* more than its configured bound, however many observations arrive.
THEOREM StoreTypeCorrect == Store!Spec => []Store!TypeOK
BY StoreInitially, StoreStep, StoreTypesFollow, PTL DEF Store!Spec

\* A withdrawn static edge stays withdrawn whatever arrives late, twice or out of order,
\* no answer blends two session epochs or uses a sample that may not be used, and the
\* index by authority is that of the samples retained (insert_observation_locked,
\* TransformEdgeHistory::insert, resolve_authority_samples).
THEOREM AnswersStayCurrent == Store!Spec => []AnswersAreCurrent
<1>1. StoreInv => AnswersAreCurrent
  BY IndexFollows, WithdrawalFollows, EpochsFollow DEF AnswersAreCurrent
<1> QED BY <1>1, StoreInitially, StoreStep, PTL DEF Store!Spec

\* For every instant, limit and set of epochs asked for: no usable sample retained of an
\* authority lies between the instant and the samples that its answer is made of, so an
\* interpolation is between neighbours and an extrapolation from the nearest on its side
\* (resolve_authority_samples, which searches an index that insertions and evictions keep
\* in order).
THEOREM AnswersComeFromTheNearest == Store!Spec => []AnswersAreNearest
BY StoreInitially, StoreStep, NearestFollows, PTL DEF Store!Spec

---------------------------------------------------------------------------
\* The instances side by side: every part is a behaviour of its own specification, so
\* that what is proved of each holds of them all.
LEMMA PartsAreTheirOwn == MCSpec => PSpec /\ Store!Spec /\ Ring!Spec /\ Calibration!Spec
<1>1. MCInit => PInit /\ Store!Init /\ Ring!Init /\ Calibration!Init BY DEF MCInit
<1>2. [MCNext]_mcVars => [PNext]_vars BY DEF MCNext, mcVars
<1>3. [MCNext]_mcVars => [Store!Next]_Store!vars BY DEF MCNext, mcVars, storeVars, Store!vars
<1>4. [MCNext]_mcVars => [Ring!Next]_Ring!vars BY DEF MCNext, mcVars, ringVars, Ring!vars
<1>5. [MCNext]_mcVars => [Calibration!Next]_Calibration!vars
  BY DEF MCNext, mcVars, calibrationVars, Calibration!vars
<1> QED BY <1>1, <1>2, <1>3, <1>4, <1>5, PTL DEF MCSpec, PSpec, Store!Spec, Ring!Spec, Calibration!Spec

\* What readers get through the Fabric: whole frames, views of authority that catch
\* up, transforms that hold what was withdrawn and blend nothing, and no calibration but
\* the one in force.
THEOREM ReadersAreServed ==
  MCSpec => [](ViewsAreCurrent /\ AnswersAreCurrent /\ NoTornFrame /\ ActivationsAreSingle)
            /\ EndedStaysEnded
BY PartsAreTheirOwn, ViewsCatchUp, AnswersStayCurrent, FramesAreWhole, OneCalibrationInForce,
   EndedCalibrationsStayEnded, PTL
=============================================================================
