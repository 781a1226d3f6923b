----------------------------- MODULE FieldReads -----------------------------
(***************************************************************************)
(* One batched call to a Modbus or an S7 client of the protocol gateway    *)
(* (adapter/modbus/client.go, adapter/s7/client.go, adapter/s7/batch.go):  *)
(* ReadTags splits the tags into address ranges, reads each range in one   *)
(* request and cuts the answer into one point per tag; WriteTags batches   *)
(* the writes and hands every error back at the index of its write.        *)
(*                                                                         *)
(* A value is where it was read: the area and the cells (registers, coils  *)
(* or bytes), so that a point is true when its value is its tag's place.   *)
(* The client's operation lock is held for a request, a call runs in one   *)
(* goroutine, and connection trouble is the matter of FieldPool; here the  *)
(* device may refuse any request or item and the context may end.          *)
(***************************************************************************)
EXTENDS Integers, Sequences, FiniteSets, SequencesExt, FiniteSetsExt

CONSTANTS
  ModbusReads,   \* sequences of tags a Modbus ReadTags is called with
  S7Reads,       \* sequences of tags an S7 ReadTags is called with
  S7Writes,      \* sequences of writes an S7 WriteTags is called with
  Space,         \* size of the Modbus address space (2^16)
  BitsPerByte,   \* coils packed in one byte of the answer (8)
  BatchLimits,   \* limits of a range: [gap, size], for each kind of cell
  Allowed,       \* most registers and coils of one request (125, 2000)
  MultiItems     \* items of one AGReadMulti or AGWriteMulti (20)

ASSUME SpaceAssumption == Space \in Nat \ {0} /\ BitsPerByte \in Nat \ {0}
ASSUME LimitsAssumption ==
  /\ MultiItems \in Nat \ {0}
  /\ BatchLimits \in [{"registers", "coils", "bytes"} -> [gap : Nat, size : Nat]]
  /\ Allowed \in [{"registers", "coils"} -> Nat]

VARIABLES
  job,       \* the call: its kind and its tags or writes
  pc,        \* where the call is
  left,      \* Modbus: the register types not read yet (a Go map)
  group,     \* Modbus: the group being read; writes: the bools still to write
  unsent,    \* the ranges, tags or write indices still to send
  partial,   \* points gathered so far by the group or the optimized path
  points,    \* the points the call returns
  errs,      \* the errors WriteTags returns: "nil" where there is none
  applied,   \* the writes the PLC carried out
  over,      \* the call's context has ended
  failed     \* the call returned an error instead of points

callVars == <<job, pc, left, group, unsent, partial, points, errs, applied, over,
              failed>>

Coils == {"coil", "discrete"}
Registers == {"holding", "input"}
DataBlocks == {"DB1", "DB2"}
Unparsable == "none"     \* an address parseTagAddress refuses
Padding == -1            \* a bit of the last byte that belongs to no coil
Spoiled == -2            \* a cell that holds other bytes than the device sent

-----------------------------------------------------------------------------
(* Tags, points and address ranges *)

Kind(area) == CASE area \in Coils     -> "coils"
                [] area \in Registers -> "registers"
                [] OTHER              -> "bytes"

Parses(t) == t.area # Unparsable

IsModbusTag(t) ==
  /\ t.area \in Coils \union Registers
  /\ t.addr \in 0..Space-1 /\ t.count \in 0..Space-1
  /\ t.reorders \in BOOLEAN    \* its byte order moves the bytes of its registers
  /\ t.area \in Coils => t.count > 0 /\ t.addr + t.count <= Space /\ ~t.reorders

IsS7Tag(t) == /\ t.area \in DataBlocks \union {"I", Unparsable}
              /\ t.addr \in Nat /\ t.count \in Nat

\* A read also knows whether the tag is a bool at another bit than 0.
IsS7Read(t) == IsS7Tag(t) /\ t.bit \in BOOLEAN

IsWrite(w) == IsS7Tag(w) /\ {w.bool, w.writable, w.convertible} \subseteq BOOLEAN

\* Lists of any length, of tags that the code can read rightly: coils without a
\* count or past the end of the space and other S7 areas are known exceptions.
ListOf(s, IsElement(_)) ==
  s \in Seq(ToSet(s)) /\ \A k \in DOMAIN s : IsElement(s[k])

\* Tags have ids of their own: the primary key of the table they come from.
Distinct(ts) == \A i, j \in DOMAIN ts : i # j => ts[i].id # ts[j].id

ASSUME JobsAssumption ==
  /\ \A ts \in ModbusReads : ListOf(ts, IsModbusTag) /\ Distinct(ts)
  /\ \A ts \in S7Reads : ListOf(ts, IsS7Read) /\ Distinct(ts)
  /\ \A ws \in S7Writes : ListOf(ws, IsWrite)

Cells(first, n) == [k \in 1..n |-> first + k - 1]

Point(t, quality, value) ==
  [tag |-> t.id, quality |-> quality, value |-> value]
Good(t, area, cells) == Point(t, "good", [area |-> area, cells |-> cells])
Bad(t) == Point(t, "bad", "nothing")
BadPoints(ts) == [k \in DOMAIN ts |-> Bad(ts[k])]

\* What the tag stands for: for a coil the one bit at its address.
Place(t) == [area |-> t.area,
             cells |-> Cells(t.addr, IF t.area \in Coils THEN 1 ELSE t.count)]

\* Modbus addresses are uint16, S7 offsets are int.
Wrap(area, n) == IF Kind(area) = "bytes" THEN n ELSE n % Space

LastOf(t) == Wrap(t.area, t.addr + t.count - 1)

\* The elements of S by how many come before them.
Arrange(S, before) ==
  [k \in 1..Cardinality(S) |-> CHOOSE i \in S : Cardinality(before[i]) = k - 1]

Ascending(S) == Arrange(S, [i \in S |-> {j \in S : j < i}])

Pick(s, at) == [k \in DOMAIN at |-> s[at[k]]]

SortByAddress(ts) ==
  LET Before(j, i) == \/ ts[j].addr < ts[i].addr
                      \/ ts[j].addr = ts[i].addr /\ j < i
  IN  Pick(ts, Arrange(DOMAIN ts, [i \in DOMAIN ts |->
                                     {j \in DOMAIN ts : Before(j, i)}]))

OfArea(ts, a) == Pick(ts, Ascending({k \in DOMAIN ts : ts[k].area = a}))

NewRange(t) ==
  [area |-> t.area, start |-> t.addr, last |-> LastOf(t), tags |-> <<t>>]

Extend(r, t) ==
  [r EXCEPT !.last = Max({LastOf(t), r.last}), !.tags = Append(@, t)]

Merges(r, t) ==
  LET limit == BatchLimits[Kind(t.area)]
      last  == IF Kind(t.area) = "bytes" THEN Extend(r, t).last ELSE LastOf(t)
  IN  /\ t.addr - r.last - 1 <= limit.gap
      /\ Wrap(t.area, last - r.start + 1) <= limit.size

AddTag(rs, t) ==
  IF rs # <<>> /\ Merges(Last(rs), t)
  THEN [rs EXCEPT ![Len(rs)] = Extend(@, t)]
  ELSE Append(rs, NewRange(t))

Ranges(ts) == FoldLeft(AddTag, <<>>, SortByAddress(ts))

Quantity(r) == Wrap(r.area, r.last - r.start + 1)

\* A request the Modbus library or any device refuses.
Impossible(r) ==
  /\ Kind(r.area) # "bytes"
  /\ Quantity(r) \notin 1..Allowed[Kind(r.area)] \/ r.start + Quantity(r) > Space

\* The tag's registers are in the answer.
Fits(r, t) == t.count # 0 /\ t.addr - r.start + t.count <= Quantity(r)

\* The bytes of each tag are put in order where they lie in the answer.
Reorders(r, t, cell) ==
  /\ r.area \in Registers /\ t.reorders /\ Fits(r, t)
  /\ cell \in t.addr..(t.addr + t.count - 1)

\* The answer as the tag at n finds it, after the tags before it.
AnswerFor(r, n) ==
  [k \in 1..Quantity(r) |->
     IF \E m \in 1..(n - 1) : Reorders(r, r.tags[m], r.start + k - 1)
     THEN Spoiled ELSE r.start + k - 1]

\* Mutant: the answer's length is not checked before the tag is cut out.
MutantNoLengthCheck(r, n) ==
  LET t == r.tags[n]
  IN  IF t.count = 0 THEN Bad(t)
      ELSE Good(t, r.area, [k \in 1..t.count |->
                     IF t.addr - r.start + k <= Quantity(r)
                     THEN AnswerFor(r, n)[t.addr - r.start + k] ELSE Padding])
RegisterPoint(r, n) ==
  LET t      == r.tags[n]
      offset == t.addr - r.start
  IN  IF Fits(r, t)
      THEN Good(t, r.area, SubSeq(AnswerFor(r, n), offset + 1, offset + t.count))
      ELSE Bad(t)

\* Only the byte is checked, not the bit: past the last coil is padding.
CoilPoint(r, t) ==
  LET offset == t.addr - r.start
      bytes  == (Quantity(r) + BitsPerByte - 1) \div BitsPerByte
  IN  IF offset \div BitsPerByte >= bytes
      THEN Bad(t)
      ELSE Good(t, r.area,
                <<IF offset < Quantity(r) THEN t.addr ELSE Padding>>)

RangePoints(r) ==
  [k \in DOMAIN r.tags |-> IF r.area \in Coils THEN CoilPoint(r, r.tags[k])
                           ELSE RegisterPoint(r, k)]

\* The points of a chunk of S7 ranges or items, of which some were refused.
ChunkPoints(rs, refused) ==
  FlattenSeq([k \in DOMAIN rs |-> IF k \in refused THEN BadPoints(rs[k].tags)
                                  ELSE RangePoints(rs[k])])

Chunk(s) == SubSeq(s, 1, Min({MultiItems, Len(s)}))
Rest(s) == SubSeq(s, Len(Chunk(s)) + 1, Len(s))

-----------------------------------------------------------------------------
Kinds == {"modbus", "s7", "write"}
Qualities == {"good", "bad", "nil"}

\* The call is where the code can be, and its parts have their types.
CallTypeOK ==
  /\ job.kind \in Kinds
  /\ pc \in {"groups", "optimized", "chunks", "fallback", "split", "writes",
             "done"}
  /\ left \subseteq {job.tags[k].area : k \in DOMAIN job.tags}
  /\ \A k \in DOMAIN points :
       /\ points[k].quality \in Qualities
       /\ points[k].quality # "nil" =>
            \E i \in DOMAIN job.tags : points[k].tag = job.tags[i].id
  /\ DOMAIN errs = IF job.kind = "write" THEN DOMAIN job.tags ELSE {}
  /\ applied \subseteq DOMAIN errs
  /\ {over, failed} \subseteq BOOLEAN
  /\ Len(partial) + Len(points) <= Len(job.tags)

AreasOf(ts) == {ts[k].area : k \in DOMAIN ts}

Start(kind, ts, where) ==
  /\ job = [kind |-> kind, tags |-> ts]
  /\ pc = where
  /\ left = IF kind = "modbus" THEN AreasOf(ts) ELSE {}
  /\ errs = IF kind = "write" THEN [k \in DOMAIN ts |-> "nil"] ELSE <<>>

CallInit ==
  /\ \/ \E ts \in ModbusReads : Start("modbus", ts, "groups")
     \/ \E ts \in S7Reads : Start("s7", ts, "optimized")
     \/ \E ws \in S7Writes : Start("write", ws, "split")
  /\ group = <<>>
  /\ unsent = <<>>
  /\ partial = <<>>
  /\ points = <<>>
  /\ applied = {}
  /\ over = FALSE
  /\ failed = FALSE

-----------------------------------------------------------------------------
(* Modbus ReadTags *)

\* The next group, in the order in which Go walks the map.
TakeGroup ==
  /\ pc = "groups" /\ group = <<>>
  /\ \E a \in left :
       /\ left' = left \ {a}
       /\ group' = OfArea(job.tags, a)
       /\ unsent' = Ranges(OfArea(job.tags, a))
  /\ UNCHANGED <<job, pc, partial, points, errs, applied, over, failed>>

NextRange(result) ==
  /\ pc = "groups" /\ unsent # <<>> /\ ~over
  /\ partial' = partial \o result
  /\ unsent' = Tail(unsent)
  /\ UNCHANGED <<job, pc, left, group, points, errs, applied, over, failed>>

ReadRange ==
  /\ unsent # <<>> /\ pc = "groups"
  /\ ~Impossible(Head(unsent))
  /\ NextRange(RangePoints(Head(unsent)))

RangeFails ==
  /\ unsent # <<>> /\ pc = "groups"
  /\ NextRange(BadPoints(Head(unsent).tags))

GroupReturns(result) ==
  /\ points' = points \o result
  /\ group' = <<>>
  /\ unsent' = <<>>
  /\ partial' = <<>>
  /\ UNCHANGED <<job, pc, left, errs, applied, over, failed>>

GroupDone ==
  /\ pc = "groups" /\ group # <<>> /\ unsent = <<>>
  /\ GroupReturns(partial)

\* The context ended: the group's points are dropped, every tag gets an error.
CutGroup ==
  /\ pc = "groups" /\ unsent # <<>> /\ over
  /\ GroupReturns(BadPoints(group))

ModbusDone ==
  /\ pc = "groups" /\ group = <<>> /\ left = {}
  /\ pc' = "done"
  /\ UNCHANGED <<job, left, group, unsent, partial, points, errs, applied, over,
                 failed>>

-----------------------------------------------------------------------------
(* S7 ReadTags *)

FallBack ==
  /\ pc' = "fallback"
  /\ unsent' = job.tags
  /\ partial' = <<>>
  /\ UNCHANGED <<job, left, group, points, errs, applied, over, failed>>

\* All addresses are parsed first; the areas come in the order of a Go map, and
\* sort.Slice leaves tags at one offset in any order, whatever theirs was.
Optimize ==
  /\ pc = "optimized"
  /\ \A k \in DOMAIN job.tags : Parses(job.tags[k])
  /\ \E order \in SetToSeqs(AreasOf(job.tags)),
        at \in SetToSeqs(DOMAIN job.tags) :
       unsent' = FlattenSeq([k \in DOMAIN order |->
                                Ranges(OfArea(Pick(job.tags, at), order[k]))])
  /\ pc' = "chunks"
  /\ UNCHANGED <<job, left, group, partial, points, errs, applied, over,
                 failed>>

CannotOptimize ==
  /\ pc = "optimized"
  /\ \E k \in DOMAIN job.tags : ~Parses(job.tags[k])
  /\ FallBack

ReadChunk ==
  /\ pc = "chunks" /\ unsent # <<>> /\ ~over
  /\ \E refused \in SUBSET DOMAIN Chunk(unsent) :
       partial' = partial \o ChunkPoints(Chunk(unsent), refused)
  /\ unsent' = Rest(unsent)
  /\ UNCHANGED <<job, pc, left, group, points, errs, applied, over, failed>>

\* AGReadMulti fails, or the context has ended: the whole call starts again.
ChunkFails ==
  /\ pc = "chunks" /\ unsent # <<>>
  /\ FallBack

PointOf(t) ==
  LET found == {k \in DOMAIN partial : partial[k].tag = t.id}
  IN  IF found = {} THEN Bad(t) ELSE partial[Max(found)]

Assemble ==
  /\ pc = "chunks" /\ unsent = <<>>
  /\ points' = [k \in DOMAIN job.tags |-> PointOf(job.tags[k])]
  /\ partial' = <<>>
  /\ pc' = "done"
  /\ UNCHANGED <<job, left, group, unsent, errs, applied, over, failed>>

FallingBack == pc = "fallback" /\ unsent # <<>> /\ ~over

FallbackAdds(result) ==
  /\ points' = points \o result
  /\ unsent' = Rest(unsent)
  /\ UNCHANGED <<job, pc, left, group, partial, errs, applied, over, failed>>

\* A bool comes as its one bit, and its bit is then looked for in that again.
ItemPoint(t) ==
  Good(t, Place(t).area, IF t.bit THEN <<Spoiled>> ELSE Place(t).cells)

\* One item for each tag.
ReadBatch ==
  /\ FallingBack
  /\ \A k \in DOMAIN Chunk(unsent) : Parses(Chunk(unsent)[k])
  /\ \E refused \in SUBSET DOMAIN Chunk(unsent) :
       FallbackAdds([k \in DOMAIN Chunk(unsent) |->
         IF k \in refused THEN Bad(Chunk(unsent)[k])
         ELSE ItemPoint(Chunk(unsent)[k])])

\* A single read asks for process inputs whenever the area is no data block.
AreaOfRequest(t) == IF t.area \in DataBlocks THEN t.area ELSE "I"

\* ReadTag returns no point at all when not connected or out of time.
ReadTag(t, outcome) ==
  CASE outcome = "nil"              -> Point(t, "nil", "nothing")
    [] outcome = "good" /\ Parses(t) -> Good(t, AreaOfRequest(t), Place(t).cells)
    [] OTHER                        -> Bad(t)

\* AGReadMulti fails, or an address does not parse: the tags one by one.
ReadEach ==
  /\ FallingBack
  /\ \E outcome \in [DOMAIN Chunk(unsent) -> Qualities] :
       FallbackAdds([k \in DOMAIN Chunk(unsent) |->
                       ReadTag(Chunk(unsent)[k], outcome[k])])

\* Mutant: the points gathered so far are returned as if they were all.
MutantNoError ==
  /\ pc = "fallback"
  /\ unsent = <<>> \/ over
  /\ pc' = "done"
  /\ UNCHANGED <<job, left, group, unsent, partial, points, errs, applied, over,
                 failed>>
FallbackDone ==
  /\ pc = "fallback"
  /\ unsent = <<>> \/ over
  /\ failed' = (unsent # <<>>)
  /\ pc' = "done"
  /\ UNCHANGED <<job, left, group, unsent, partial, points, errs, applied, over>>

-----------------------------------------------------------------------------
(* S7 WriteTags *)

\* The positions of the writable items that are bools, or are not, in order.
Indices(bool) ==
  Ascending({k \in DOMAIN job.tags :
               job.tags[k].writable /\ job.tags[k].bool = bool})

\* Refused writes are answered at once; bools wait for the batches.
SplitWrites ==
  /\ pc = "split"
  /\ errs' = [k \in DOMAIN errs |->
                IF job.tags[k].writable THEN "nil" ELSE "error"]
  /\ unsent' = Indices(FALSE)
  /\ group' = Indices(TRUE)
  /\ pc' = "writes"
  /\ UNCHANGED <<job, left, partial, points, applied, over, failed>>

Encodes(k) == Parses(job.tags[k]) /\ job.tags[k].convertible

\* The items of a chunk: the writes that parse and convert.
Items(chunk) ==
  Pick(chunk, Ascending({k \in DOMAIN chunk : Encodes(chunk[k])}))

WritingBatches == pc = "writes" /\ unsent # <<>> /\ ~over

Settle(wrong, done) ==
  /\ errs' = [k \in DOMAIN errs |-> IF k \in wrong THEN "error" ELSE errs[k]]
  /\ applied' = applied \union done
  /\ unsent' = Rest(unsent)
  /\ UNCHANGED <<job, pc, left, group, partial, points, over, failed>>

Unencodable(chunk) == {k \in ToSet(chunk) : ~Encodes(k)}

\* Mutant: the errors of the items are put at the items' own positions.
MutantItemPosition(chunk, refused) == {chunk[j] : j \in refused}
\* The writes behind the items that came back with an error.
WritesOf(chunk, refused) == {Items(chunk)[j] : j \in refused}

WriteChunk ==
  /\ WritingBatches
  /\ \E refused \in SUBSET DOMAIN Items(Chunk(unsent)) :
       LET chunk == Chunk(unsent)
       IN  Settle(Unencodable(chunk) \union WritesOf(chunk, refused),
                  {Items(chunk)[j] : j \in DOMAIN Items(chunk) \ refused})

\* AGWriteMulti fails: the PLC may have carried out any of the items.
WriteChunkFails ==
  /\ WritingBatches
  /\ \E done \in SUBSET ToSet(Items(Chunk(unsent))) :
       Settle(ToSet(Chunk(unsent)), done)

WritesCut ==
  /\ pc = "writes" /\ unsent # <<>> /\ over
  /\ errs' = [k \in DOMAIN errs |-> IF k \in ToSet(unsent) \union ToSet(group)
                                    THEN "error" ELSE errs[k]]
  /\ pc' = "done"
  /\ UNCHANGED <<job, left, group, unsent, partial, points, applied, over,
                 failed>>

NextBool(answer, done) ==
  /\ pc = "writes" /\ unsent = <<>> /\ group # <<>>
  /\ errs' = [errs EXCEPT ![Head(group)] = answer]
  /\ applied' = applied \union done
  /\ group' = Tail(group)
  /\ UNCHANGED <<job, pc, left, unsent, partial, points, over, failed>>

\* Read, change and write back the byte: of the inputs but for a data block.
WriteBool ==
  /\ pc = "writes" /\ group # <<>> /\ ~over
  /\ Encodes(Head(group))
  /\ LET w == job.tags[Head(group)]
     IN  NextBool("nil", IF AreaOfRequest(w) = w.area THEN {Head(group)}
                         ELSE {})

\* The write fails, perhaps after the PLC carried it out, or time is up.
WriteBoolFails ==
  /\ pc = "writes" /\ group # <<>>
  /\ \E done \in SUBSET {Head(group)} :
       /\ done # {} => Encodes(Head(group)) /\ ~over
       /\ NextBool("error", done)

WritesDone ==
  /\ pc = "writes" /\ unsent = <<>> /\ group = <<>>
  /\ pc' = "done"
  /\ UNCHANGED <<job, left, group, unsent, partial, points, errs, applied, over,
                 failed>>

-----------------------------------------------------------------------------
\* An S7 client that is not connected answers at once, with errors only.
NotConnected ==
  /\ pc \in {"optimized", "split"}
  /\ pc' = "done"
  /\ failed' = (job.kind = "s7")
  /\ errs' = [k \in DOMAIN errs |-> "error"]
  /\ UNCHANGED <<job, left, group, unsent, partial, points, applied, over>>

\* The caller's context ends: its deadline, or the gateway stops.
ContextEnds ==
  /\ ~over /\ pc # "done"
  /\ over' = TRUE
  /\ UNCHANGED <<job, pc, left, group, unsent, partial, points, errs, applied,
                 failed>>

Modbus == TakeGroup \/ ReadRange \/ RangeFails \/ GroupDone \/ CutGroup
          \/ ModbusDone
S7Read == Optimize \/ CannotOptimize \/ ReadChunk \/ ChunkFails \/ Assemble
          \/ ReadBatch \/ ReadEach \/ FallbackDone
S7Write == SplitWrites \/ WriteChunk \/ WriteChunkFails \/ WritesCut
           \/ WriteBool \/ WriteBoolFails \/ WritesDone

CallNext == Modbus \/ S7Read \/ S7Write \/ NotConnected \/ ContextEnds

CallSpec == CallInit /\ [][CallNext]_callVars

-----------------------------------------------------------------------------
(* Safety *)

\* A call that returns points returns exactly one for every tag it was given:
\* whatever ranges failed, whether the context ended among them, whether the
\* S7 call started over, and in which order Go walked its maps.  S7 returns
\* them in the order of the tags.
OnePointPerTag ==
  pc = "done" /\ job.kind # "write" /\ ~failed =>
    /\ Len(points) = Len(job.tags)
    /\ \A i \in DOMAIN job.tags :
         \/ points[i].quality = "nil"
         \/ IF job.kind = "s7" THEN points[i].tag = job.tags[i].id
            ELSE \E k \in DOMAIN points : points[k].tag = job.tags[i].id

\* The bytes of u are put in order before those of t are read, and t begins in
\* its registers.
Disturbs(u, t) ==
  /\ u.id # t.id /\ u.area = t.area /\ u.reorders
  /\ u.addr <= t.addr /\ t.addr < u.addr + u.count

\* Tags the code may read wrongly: registers that begin in those of a tag with
\* another byte order than big-endian, and bools at another bit than 0.
Misread(t) ==
  IF job.kind = "modbus" THEN \E u \in ToSet(job.tags) : Disturbs(u, t) ELSE t.bit

\* A point of good quality carries what is at its tag's own place: a batched
\* answer is cut at the right offset, across gaps, overlaps, register addresses
\* whose end wraps around 2^16, and bytes put in order in place for the tags
\* before it.  Excepted are only the tags that such an order does disturb, and
\* bools a batch of the S7 fallback may have read.
GoodPointsAreTrue ==
  \A k \in DOMAIN points : points[k].quality = "good" =>
    \E i \in DOMAIN job.tags :
      /\ points[k].tag = job.tags[i].id
      /\ points[k].value = Place(job.tags[i]) \/ Misread(job.tags[i])

\* No request is for more than the configured size of a batch, unless one tag
\* alone is: what the limits of the protocol and of the PLC's PDU rest on.
RequestsFit ==
  pc \in {"groups", "chunks"} => \A k \in DOMAIN unsent :
    \/ Quantity(unsent[k]) <= BatchLimits[Kind(unsent[k].area)].size
    \/ \E i \in DOMAIN unsent[k].tags : Quantity(unsent[k]) = unsent[k].tags[i].count

\* The safety of a read: types, one point per tag, requests within the limits.
ReadSafe == CallTypeOK /\ OnePointPerTag /\ RequestsFit

\* A write reported without an error was carried out, at the tag it was for:
\* the errors of the batch reach the indices of the writes they belong to,
\* although the batch leaves out writes that do not parse or convert and
\* the bools, and whenever the call was cut short.
WritesAnsweredHonestly ==
  pc = "done" /\ job.kind = "write" =>
    \A i \in DOMAIN errs : errs[i] = "nil" => i \in applied

=============================================================================
