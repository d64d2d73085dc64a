--------------------------- MODULE ForwarderProofs ---------------------------
(***************************************************************************)
(* Proofs about the forwarder, for every size, bound and set of writers, on *)
(* a filesystem that does not give a deleted file's inode to a new file     *)
(* while a checkpoint still names it.                                      *)
(***************************************************************************)
EXTENDS Forwarder, RetentionReport, SequenceTheorems, FiniteSetTheorems, WellFoundedInduction, TLAPS

-----------------------------------------------------------------------------
(* The log and its writers.                                                 *)

\* A guarded append records its line in a well-formed segment.
LEMMA RecordType ==
  ASSUME NEW e \in Events, NEW f \in Inodes, NEW len \in Nat, len >= 2,
         guard \in Seq(Segment), Record(e, f, len)
  PROVE  guard' \in Seq(Segment)
<1> DEFINE last == Len(guard)
           new  == [file |-> f, offset |-> len - 2, ev |-> e, end |-> len, events |-> {e}]
<1>1. new \in Segment
  BY DEF Segment
<1>2. CASE last > 0 /\ guard[last].file = f /\ len > guard[last].end
  <2> DEFINE ext == [guard[last] EXCEPT !.end = len, !.events = @ \cup {e}]
  <2>1. guard[last] \in Segment
    BY <1>2
  <2>2. ext \in Segment
    BY <2>1 DEF Segment
  <2>3. guard' = [guard EXCEPT ![last] = ext]
    BY <1>2 DEF Record
  <2> QED BY <2>2, <2>3, <1>2
<1>3. CASE ~(last > 0 /\ guard[last].file = f /\ len > guard[last].end)
  BY <1>1, <1>3 DEF Record
<1> QED BY <1>2, <1>3

\* A line is two units, so an append keeps every file a sequence of units.
LEMMA LineUnits ==
  ASSUME NEW e \in Events
  PROVE  Line(e)[1] \in Unit /\ Line(e)[2] \in Unit
BY DEF Line, Unit

\* The writer's steps keep the log well formed, whatever files readers hold.
LEMMA LogTypeStep ==
  ASSUME LogTypeOK, FilesInv, NEW held, WriterNext(held)
  PROVE  LogTypeOK' /\ FilesInv'
<1> USE ArchivesAssumption, SizesAssumption, InodesAssumption, GuardsAssumption,
        FaultsAssumption
<1>1. ASSUME NEW g \in Guards, BeginAppend(g)
      PROVE  LogTypeOK' /\ FilesInv'
  BY <1>1 DEF BeginAppend, LogTypeOK, FilesInv, Linked, Events, Slots
<1>2. CASE RotateStep
  <2>1. LogTypeOK'
    BY <1>2 DEF RotateStep, LogTypeOK, Slots
  <2>2. Linked' \subseteq Linked
    BY <1>2 DEF RotateStep, LogTypeOK, Linked, Slots
  <2>3. FilesInv'
    BY <1>2, <2>2 DEF RotateStep, FilesInv
  <2> QED BY <2>1, <2>3
<1>3. CASE WriteBody(held)
  <2> DEFINE body == <<Line(next)[1]>>
  <2>1. next \in Events /\ body \in Seq(Unit) /\ body # <<>> /\ 0 \in Slots
    BY <1>3, LineUnits DEF WriteBody, LogTypeOK, Slots
  <2>2. CASE slot[0] # NoFile
    <3>1. slot[0] \in Inodes
      BY <2>1, <2>2 DEF LogTypeOK
    <3>2. data' = [data EXCEPT ![slot[0]] = @ \o body] /\ slot' = slot /\ used' = used
      BY <1>3, <2>2 DEF WriteBody
    <3>3. data[slot[0]] \o body \in Seq(Unit) /\ data[slot[0]] \o body # <<>>
      BY <2>1, <3>1 DEF LogTypeOK
    <3>4. FilesInv'
      BY <2>1, <3>1, <3>2, <3>3, <2>2 DEF FilesInv, LogTypeOK, Linked
    <3> QED BY <1>3, <2>1, <3>1, <3>2, <3>3, <3>4 DEF WriteBody, LogTypeOK
  <2>3. CASE slot[0] = NoFile
    <3>1. PICK f \in Free(held) : /\ slot' = [slot EXCEPT ![0] = f]
                                  /\ used' = used \cup {f}
                                  /\ data' = [data EXCEPT ![f] = body]
      BY <1>3, <2>3 DEF WriteBody
    <3>2. f \in Inodes
      BY DEF Free
    <3>3. FilesInv'
      BY <2>1, <3>1, <3>2 DEF FilesInv, LogTypeOK, Linked
    <3> QED BY <1>3, <2>1, <3>1, <3>2, <3>3 DEF WriteBody, LogTypeOK
  <2> QED BY <2>2, <2>3
<1>4. CASE WriteEnd
  <2> DEFINE f == slot[0]
             nl == <<Line(next)[2]>>
  <2>1. next \in Events /\ nl \in Seq(Unit) /\ f \in Inodes /\ data[f] # <<>>
    BY <1>4, LineUnits DEF WriteEnd, LogTypeOK, FilesInv, Slots
  <2>2. data' = [data EXCEPT ![f] = @ \o nl] /\ UNCHANGED <<slot, used, wslot, guarded, faults>>
    BY <1>4 DEF WriteEnd
  <2>3. data[f] \o nl \in Seq(Unit) /\ Len(data[f]) \in Nat /\ Len(data[f]) + 1 >= 2
    BY <2>1 DEF LogTypeOK
  <2>4. guard' \in Seq(Segment)
    <3>1. CASE guarded
      BY <3>1, <1>4, <2>1, <2>3, RecordType DEF WriteEnd, LogTypeOK
    <3>2. CASE ~guarded
      BY <3>2, <1>4 DEF WriteEnd, LogTypeOK
    <3> QED BY <3>1, <3>2
  <2>5. FilesInv'
    BY <1>4, <2>1, <2>2, <2>3 DEF WriteEnd, FilesInv, Linked, LogTypeOK
  <2> QED BY <1>4, <2>1, <2>2, <2>3, <2>4, <2>5 DEF WriteEnd, LogTypeOK, Events
<1>5. CASE WriterFails
  BY <1>5 DEF WriterFails, LogTypeOK, FilesInv, Linked, Events
<1> QED BY <1>1, <1>2, <1>3, <1>4, <1>5 DEF WriterNext, WriterStep

LEMMA LogTypeInit == LogInit => LogTypeOK /\ FilesInv
<1> SUFFICES ASSUME LogInit PROVE LogTypeOK /\ FilesInv
  OBVIOUS
<1>1. Linked = {}
  BY DEF LogInit, Linked
<1>2. LogTypeOK
  BY ArchivesAssumption, SizesAssumption, FaultsAssumption DEF LogInit, LogTypeOK, Slots
<1> QED BY <1>1, <1>2 DEF LogInit, FilesInv

\* Every state of the log is well formed (appendJSONL and its rotation).
THEOREM LogTypeCorrect == LogSpec => []LogTypeOK
<1>1. LogInit => LogTypeOK /\ FilesInv
  BY LogTypeInit
<1>2. LogTypeOK /\ FilesInv /\ [LogNext]_logVars => LogTypeOK' /\ FilesInv'
  <2> SUFFICES ASSUME LogTypeOK, FilesInv, [LogNext]_logVars
               PROVE  LogTypeOK' /\ FilesInv'
    OBVIOUS
  <2>1. CASE LogNext
    BY <2>1, LogTypeStep DEF LogNext
  <2>2. CASE UNCHANGED logVars
    BY <2>2 DEF logVars, LogTypeOK, FilesInv, Linked
  <2> QED BY <2>1, <2>2
<1> QED BY <1>1, <1>2, PTL DEF LogSpec

\* Without inode reuse a file only ever grows.
LEMMA DataGrows ==
  ASSUME ~InodeReuse, LogTypeOK, FilesInv, NEW held, WriterNext(held), NEW f \in Inodes
  PROVE  /\ Len(data[f]) =< Len(data'[f])
         /\ \A j \in 1..Len(data[f]) : data'[f][j] = data[f][j]
<1>1. CASE UNCHANGED data
  BY <1>1 DEF LogTypeOK
<1>2. CASE WriteBody(held)
  BY <1>2, LineUnits, SizesAssumption DEF WriteBody, LogTypeOK, FilesInv, Free, Slots
<1>3. CASE WriteEnd
  BY <1>3, LineUnits, SizesAssumption DEF WriteEnd, LogTypeOK, FilesInv, Slots
<1> QED
  BY <1>1, <1>2, <1>3 DEF WriterNext, WriterStep, BeginAppend, RotateStep, WriterFails

-----------------------------------------------------------------------------
(* Rotation order.  The inductive invariant says that the name a rotation    *)
(* renames onto is free, that files have one name each, and that only the   *)
(* event under way is as young as next.                                     *)

LEMMA UnitEventsType ==
  ASSUME LogTypeOK, NEW f \in Inodes
  PROVE  UnitEvents(f) \subseteq Events
<1>1. data[f] \in Seq(Unit)
  BY DEF LogTypeOK
<1>2. \A j \in DOMAIN data[f] : data[f][j] \in Unit
  BY <1>1
<1>3. \A u \in Unit : u.ev \in Events
  BY DEF Unit
<1> QED BY <1>2, <1>3 DEF UnitEvents, EventsIn

\* Appending a unit to a file adds its event to the file's.
LEMMA EventsInAppend ==
  ASSUME NEW s \in Seq(Unit), NEW u \in Unit
  PROVE  EventsIn(s \o <<u>>) = EventsIn(s) \cup {u.ev}
<1> DEFINE t == s \o <<u>>
<1>1. /\ DOMAIN t = DOMAIN s \cup {Len(s) + 1}
      /\ \A j \in DOMAIN s : t[j] = s[j]
      /\ t[Len(s) + 1] = u
  OBVIOUS
<1> HIDE DEF t
<1>2. EventsIn(t) = EventsIn(s) \cup {u.ev}
  BY <1>1 DEF EventsIn
<1> QED BY <1>2 DEF t

LEMMA OrderInit == LogInit => OrderInv
<1> SUFFICES ASSUME LogInit PROVE OrderInv
  OBVIOUS
<1>1. \A i \in Slots : slot[i] = NoFile
  BY DEF LogInit
<1>2. wpc = "idle"
  BY DEF LogInit
<1> QED BY <1>1, <1>2 DEF OrderInv, RotationInv, WrittenInv, OneName, OlderInHigherSlots

\* A step that leaves the files and the names alone keeps the order when no
\* event is under way any more, or the next one is offered.
LEMMA OrderKept ==
  ASSUME LogTypeOK, OrderInv, UNCHANGED <<slot, data>>,
         \/ wpc' # "rotate"
         \/ wpc # "rotate" /\ wslot' = Archives,
         \/ next' = next /\ wpc # "end"
         \/ next' = next + 1
  PROVE  OrderInv'
<1> USE ArchivesAssumption, SizesAssumption, InodesAssumption DEF OrderInv, UnitEvents
<1>1. next \in Nat /\ \A i \in Slots : slot[i] # NoFile => EventsIn(data[slot[i]]) \subseteq Nat
  BY UnitEventsType DEF LogTypeOK, Events
<1>2. RotationInv'
  BY DEF RotationInv
<1>3. \A i \in Slots : slot[i] # NoFile => \A e \in EventsIn(data[slot[i]]) : e < next'
  <2> SUFFICES ASSUME NEW i \in Slots, slot[i] # NoFile, NEW e \in EventsIn(data[slot[i]])
               PROVE  e < next'
    OBVIOUS
  <2>1. e \in Nat /\ (e < next \/ (wpc = "end" /\ e = next))
    BY <1>1 DEF WrittenInv
  <2> QED BY <1>1, <2>1
<1>4. WrittenInv'
  BY <1>3 DEF WrittenInv
<1>5. OneName' /\ OlderInHigherSlots'
  BY DEF OneName, OlderInHigherSlots
<1> QED BY <1>2, <1>4, <1>5

\* The event under way joins the live log f, which no other slot names, and is
\* younger than all others.
LEMMA OrderAppended ==
  ASSUME LogTypeOK, OrderInv, wpc \in {"write", "end"}, NEW f \in Inodes,
         slot'[0] = f,
         \A i \in Slots : i # 0 => slot'[i] = slot[i] /\ slot[i] # f,
         \A g \in Inodes : g # f => data'[g] = data[g],
         \A e \in EventsIn(data'[f]) : e = next \/ (slot[0] = f /\ e \in EventsIn(data[f])),
         \/ wpc' = "end" /\ next' = next
         \/ wpc' = "idle" /\ next' = next + 1
  PROVE  OrderInv'
<1> USE ArchivesAssumption, SizesAssumption, InodesAssumption DEF OrderInv, UnitEvents
<1>1. next \in Nat /\ 0 \in Slots /\ f # NoFile
  BY DEF LogTypeOK, Events, Slots
<1>2. \A i \in Slots : slot[i] # NoFile =>
         slot[i] \in Inodes /\ EventsIn(data[slot[i]]) \subseteq Nat
  BY UnitEventsType DEF LogTypeOK, Events
<1>3. \A i \in Slots : i # 0 /\ slot'[i] # NoFile =>
         /\ slot'[i] = slot[i] /\ data'[slot'[i]] = data[slot[i]]
         /\ \A e \in EventsIn(data[slot[i]]) : e \in Nat /\ e < next
  BY <1>2 DEF WrittenInv
<1>4. \A e \in EventsIn(data'[f]) : e \in Nat /\ (e < next \/ e = next)
  BY <1>1, <1>2 DEF WrittenInv
<1>5. RotationInv'
  BY DEF RotationInv
<1>6. WrittenInv'
  <2> SUFFICES ASSUME NEW i \in Slots, slot'[i] # NoFile, NEW e \in EventsIn(data'[slot'[i]])
               PROVE  e < next' \/ (i = 0 /\ wpc' = "end" /\ e = next')
    BY DEF WrittenInv
  <2>1. e \in Nat /\ (e < next \/ (i = 0 /\ e = next))
    BY <1>3, <1>4
  <2> QED BY <1>1, <2>1
<1>7. OneName'
  BY DEF OneName
<1>8. OlderInHigherSlots'
  <2> SUFFICES ASSUME NEW i \in Slots, NEW j \in Slots, i < j,
                      slot'[i] # NoFile, slot'[j] # NoFile,
                      NEW e \in EventsIn(data'[slot'[i]]), NEW d \in EventsIn(data'[slot'[j]])
               PROVE  d < e
    BY DEF OlderInHigherSlots
  <2>1. j # 0
    BY DEF Slots
  <2>2. d \in EventsIn(data[slot[j]]) /\ slot[j] # NoFile /\ d \in Nat /\ d < next
    BY <1>3, <2>1
  <2>3. CASE i # 0
    BY <1>3, <2>2, <2>3 DEF OlderInHigherSlots
  <2>4. CASE i = 0 /\ e = next
    BY <2>2, <2>4
  <2>5. CASE i = 0 /\ slot[0] = f /\ e \in EventsIn(data[f])
    BY <1>1, <2>2, <2>5 DEF OlderInHigherSlots
  <2> QED BY <2>3, <2>4, <2>5
<1> QED BY <1>5, <1>6, <1>7, <1>8

LEMMA OrderStep ==
  ASSUME LogTypeOK, FilesInv, OrderInv, NEW held, WriterNext(held)
  PROVE  OrderInv'
<1> USE ArchivesAssumption, SizesAssumption, InodesAssumption
<1>1. ASSUME NEW g \in Guards, BeginAppend(g)
      PROVE  OrderInv'
  BY <1>1, OrderKept DEF BeginAppend, LogTypeOK, Events
<1>2. CASE RotateStep
  <2> USE DEF UnitEvents
  <2>1. UNCHANGED <<data, next>>
    BY <1>2 DEF RotateStep
  <2>2. CASE wslot = Archives
    <3>1. slot' = [slot EXCEPT ![Archives] = NoFile] /\ wpc' = "rotate" /\ wslot' = Archives - 1
      BY <1>2, <2>2 DEF RotateStep
    <3>2. /\ slot'[Archives] = NoFile
          /\ \A i \in Slots : i # Archives => slot'[i] = slot[i]
      BY <3>1 DEF LogTypeOK, Slots
    <3>3. RotationInv'
      BY <3>1, <3>2 DEF RotationInv
    <3>4. WrittenInv'
      BY <1>2, <2>1, <3>2 DEF OrderInv, RotateStep, WrittenInv, LogTypeOK
    <3>5. OneName'
      BY <3>2 DEF OrderInv, OneName
    <3>6. OlderInHigherSlots'
      BY <2>1, <3>2 DEF OrderInv, OlderInHigherSlots, LogTypeOK
    <3> QED BY <3>3, <3>4, <3>5, <3>6 DEF OrderInv
  <2>3. CASE wslot # Archives
    <3> USE DEF OrderInv
    <3>1. wslot + 1 \in Slots /\ wslot \in Slots /\ slot[wslot + 1] = NoFile
      BY <1>2, <2>3 DEF RotateStep, LogTypeOK, RotationInv, Slots
    <3>2. \A i \in Slots : slot'[i] = IF i = wslot + 1 THEN slot[wslot]
                                      ELSE IF i = wslot THEN NoFile ELSE slot[i]
      BY <1>2, <2>3, <3>1 DEF RotateStep, LogTypeOK, Slots
    <3>3. wpc' = (IF wslot = 0 THEN "write" ELSE "rotate") /\ (wslot # 0 => wslot' = wslot - 1)
      BY <1>2 DEF RotateStep
    <3>4. RotationInv'
      BY <3>1, <3>2, <3>3 DEF RotationInv, Slots
    <3>5. WrittenInv'
      BY <1>2, <2>1, <3>1, <3>2, <3>3 DEF RotateStep, WrittenInv, LogTypeOK, Slots
    <3>6. OneName'
      BY <3>1, <3>2 DEF OneName, Slots
    <3>7. OlderInHigherSlots'
      <4> SUFFICES ASSUME NEW i \in Slots, NEW j \in Slots, i < j,
                          slot'[i] # NoFile, slot'[j] # NoFile
                   PROVE  \A e \in EventsIn(data[slot'[i]]), d \in EventsIn(data[slot'[j]]) : d < e
        BY <2>1 DEF OlderInHigherSlots
      <4> DEFINE was(k) == IF k = wslot + 1 THEN wslot ELSE k
      <4>1. i # wslot /\ slot'[i] = slot[was(i)] /\ j # wslot /\ slot'[j] = slot[was(j)]
        BY <3>1, <3>2 DEF Slots
      <4>2. was(i) \in Slots /\ was(j) \in Slots /\ was(i) < was(j)
        BY <4>1, <3>1 DEF Slots
      <4> HIDE DEF was
      <4> QED BY <4>1, <4>2 DEF OlderInHigherSlots
    <3> QED BY <3>4, <3>5, <3>6, <3>7
  <2> QED BY <2>2, <2>3
<1>3. CASE WriteBody(held)
  <2>1. next \in Events /\ Line(next)[1] \in Unit /\ Line(next)[1].ev = next
    BY <1>3, LineUnits DEF WriteBody, LogTypeOK, Line
  <2>2. wpc = "write" /\ wpc' = "end" /\ next' = next
    BY <1>3 DEF WriteBody
  <2>3. CASE slot[0] # NoFile
    <3>1. slot[0] \in Inodes /\ slot' = slot
          /\ data' = [data EXCEPT ![slot[0]] = @ \o <<Line(next)[1]>>]
      BY <1>3, <2>3 DEF WriteBody, LogTypeOK, Slots
    <3>2. /\ data'[slot[0]] = data[slot[0]] \o <<Line(next)[1]>>
          /\ \A g \in Inodes : g # slot[0] => data'[g] = data[g]
          /\ EventsIn(data'[slot[0]]) = EventsIn(data[slot[0]]) \cup {next}
      BY <2>1, <3>1, EventsInAppend DEF LogTypeOK
    <3>3. \A i \in Slots : i # 0 => slot[i] # slot[0]
      BY <2>3 DEF OrderInv, OneName, Slots
    <3> QED BY <2>2, <3>1, <3>2, <3>3, OrderAppended
  <2>4. CASE slot[0] = NoFile
    <3>1. PICK f \in Free(held) : /\ slot' = [slot EXCEPT ![0] = f]
                                  /\ data' = [data EXCEPT ![f] = <<Line(next)[1]>>]
      BY <1>3, <2>4 DEF WriteBody
    <3>2. f \in Inodes /\ f \notin Linked
      BY DEF Free, FilesInv
    <3>3. /\ data'[f] = <<Line(next)[1]>>
          /\ \A g \in Inodes : g # f => data'[g] = data[g]
      BY <3>1, <3>2 DEF LogTypeOK
    <3>4. EventsIn(data'[f]) = {next}
      BY <2>1, <3>3 DEF EventsIn
    <3>5. /\ slot'[0] = f
          /\ \A i \in Slots : i # 0 => slot'[i] = slot[i] /\ slot[i] # f
      BY <3>1, <3>2 DEF LogTypeOK, Linked, Slots
    <3> QED BY <2>2, <3>2, <3>3, <3>4, <3>5, OrderAppended
  <2> QED BY <2>3, <2>4
<1>4. CASE WriteEnd
  <2>1. /\ next \in Events /\ Line(next)[2] \in Unit /\ Line(next)[2].ev = next
        /\ slot[0] \in Inodes /\ slot' = slot
    <3>1. next \in Events
      BY <1>4 DEF WriteEnd, LogTypeOK
    <3>2. slot[0] \in Inodes /\ slot' = slot
      BY <1>4 DEF WriteEnd, LogTypeOK, FilesInv, Slots
    <3> QED BY <3>1, <3>2, LineUnits DEF Line
  <2>2. /\ data'[slot[0]] = data[slot[0]] \o <<Line(next)[2]>>
        /\ \A g \in Inodes : g # slot[0] => data'[g] = data[g]
        /\ EventsIn(data'[slot[0]]) = EventsIn(data[slot[0]]) \cup {next}
    BY <1>4, <2>1, EventsInAppend DEF WriteEnd, LogTypeOK
  <2>3. \A i \in Slots : i # 0 => slot[i] # slot[0]
    BY <2>1, InodesAssumption DEF OrderInv, OneName, Slots
  <2>4. wpc = "end" /\ wpc' = "idle" /\ next' = next + 1
    BY <1>4 DEF WriteEnd
  <2> QED BY <2>1, <2>2, <2>3, <2>4, OrderAppended
<1>5. CASE WriterFails
  BY <1>5, OrderKept DEF WriterFails
<1> QED BY <1>1, <1>2, <1>3, <1>4, <1>5 DEF WriterNext, WriterStep

\* A larger archive number never holds a younger event, at any step of any
\* rotation and after any interrupted one (rotateIfNeeded's order of renames).
THEOREM OrderCorrect == LogSpec => []OlderInHigherSlots
<1> DEFINE Inv == LogTypeOK /\ FilesInv /\ OrderInv
<1>1. LogInit => Inv
  BY LogTypeInit, OrderInit
<1>2. Inv /\ [LogNext]_logVars => Inv'
  <2> SUFFICES ASSUME Inv, [LogNext]_logVars PROVE Inv'
    OBVIOUS
  <2>1. CASE LogNext
    BY <2>1, LogTypeStep, OrderStep DEF LogNext
  <2>2. CASE UNCHANGED logVars
    BY <2>2 DEF logVars, LogTypeOK, FilesInv, Linked, OrderInv, RotationInv,
                WrittenInv, OneName, OlderInHigherSlots, UnitEvents
  <2> QED BY <2>1, <2>2
<1>3. Inv => OlderInHigherSlots
  BY DEF OrderInv
<1> QED BY <1>1, <1>2, <1>3, PTL DEF LogSpec

\* A file that leaves the log is .N, deleted by a rotation.
LEMMA StepDeletes ==
  ASSUME LogTypeOK, OrderInv, NEW held, WriterNext(held)
  PROVE  \A f \in Linked \ Linked' :
           f = slot[Archives] /\ wpc = "rotate" /\ wslot = Archives
<1>1. CASE slot' = slot
  BY <1>1 DEF Linked
<1>2. CASE RotateStep
  BY <1>2, ArchivesAssumption
     DEF RotateStep, OrderInv, RotationInv, LogTypeOK, Linked, Slots
<1>3. CASE WriteBody(held)
  BY <1>3, ArchivesAssumption DEF WriteBody, LogTypeOK, Linked, Slots
<1> QED BY <1>1, <1>2, <1>3
        DEF WriterNext, WriterStep, BeginAppend, WriteEnd, WriterFails

\* Only the deletion of .N takes a file out of the log: no rename lands on a
\* retained file.
THEOREM DeletionCorrect == LogSpec => OnlyLastSlotIsDeleted
<1> DEFINE Inv == LogTypeOK /\ FilesInv /\ OrderInv
           Deletes == \A f \in Linked \ Linked' :
                        f = slot[Archives] /\ wpc = "rotate" /\ wslot = Archives
<1>1. LogInit => Inv
  BY LogTypeInit, OrderInit
<1>2. Inv /\ [LogNext]_logVars => Inv'
  <2> SUFFICES ASSUME Inv, [LogNext]_logVars PROVE Inv'
    OBVIOUS
  <2>1. CASE LogNext
    BY <2>1, LogTypeStep, OrderStep DEF LogNext
  <2>2. CASE UNCHANGED logVars
    BY <2>2 DEF logVars, LogTypeOK, FilesInv, Linked, OrderInv, RotationInv,
                WrittenInv, OneName, OlderInHigherSlots, UnitEvents
  <2> QED BY <2>1, <2>2
<1>3. Inv /\ [LogNext]_logVars => [Deletes]_logVars
  <2> SUFFICES ASSUME Inv, LogNext PROVE Deletes
    OBVIOUS
  <2>1. WriterNext({})
    BY DEF LogNext
  <2> QED BY <2>1, StepDeletes
<1> QED BY <1>1, <1>2, <1>3, PTL DEF LogSpec, OnlyLastSlotIsDeleted

-----------------------------------------------------------------------------
(* The retention guard.                                                     *)

LEMMA TwoUnits ==
  ASSUME NEW d \in Seq(Unit), NEW a \in Nat, a + 2 =< Len(d)
  PROVE  SubSeq(d, a + 1, a + 2) = <<d[a + 1], d[a + 2]>>
<1> DEFINE s == SubSeq(d, a + 1, a + 2)
           p == <<d[a + 1], d[a + 2]>>
<1>1. s \in Seq(Unit) /\ Len(s) = 2 /\ \A i \in 1..2 : s[i] = d[a + i]
  <2>1. /\ s \in Seq(Unit) /\ Len(s) = IF a + 1 =< a + 2 THEN (a + 2) - (a + 1) + 1 ELSE 0
        /\ \A i \in 1..((a + 2) - (a + 1) + 1) : s[i] = d[(a + 1) + i - 1]
    BY SubSeqProperties
  <2> HIDE DEF s
  <2>2. (a + 2) - (a + 1) + 1 = 2 /\ a + 1 =< a + 2
    OBVIOUS
  <2>3. \A i \in 1..2 : (a + 1) + i - 1 = a + i
    OBVIOUS
  <2> QED BY <2>1, <2>2, <2>3
<1>2. p \in Seq(Unit) /\ Len(p) = 2 /\ p[1] = d[a + 1] /\ p[2] = d[a + 2]
  OBVIOUS
<1>3. \A i \in 1..2 : s[i] = p[i]
  <2>1. \A i \in 1..2 : i = 1 \/ i = 2
    OBVIOUS
  <2> QED BY <1>1, <1>2, <2>1
<1> HIDE DEF s, p
<1>4. s = p
  BY <1>1, <1>2, <1>3, SeqEqual
<1> QED BY <1>4 DEF s, p

\* The guard's segments are in the log's files.
LEMMA SegmentType ==
  ASSUME LogTypeOK, NEW k \in DOMAIN guard
  PROVE  guard[k] \in Segment /\ guard[k].file \in Inodes
<1>1. guard[k] \in Segment
  BY DEF LogTypeOK
<1> QED BY <1>1 DEF Segment

\* A segment is found exactly under the name of its file.
LEMMA SegmentFound ==
  ASSUME LogTypeOK, SegmentsInv, NEW k \in DOMAIN guard, NEW i \in Slots
  PROVE  IsFile(guard[k], i) <=> slot[i] = guard[k].file
<1> DEFINE s == guard[k]
           d == data[s.file]
<1>1. s \in Segment
  BY DEF LogTypeOK
<1>2. s.file \in Inodes /\ s.offset \in Nat /\ d \in Seq(Unit)
  BY <1>1 DEF Segment, LogTypeOK
<1>3. s.offset + 2 =< Len(d) /\ d[s.offset + 1] = Line(s.ev)[1] /\ d[s.offset + 2] = Line(s.ev)[2]
  BY DEF SegmentsInv, Sound
<1> HIDE DEF s, d
<1>4. SubSeq(d, s.offset + 1, s.offset + 2) = <<d[s.offset + 1], d[s.offset + 2]>>
  BY <1>2, <1>3, TwoUnits
<1>5. <<d[s.offset + 1], d[s.offset + 2]>> = Line(s.ev)
  BY <1>3 DEF Line
<1>6. IsFile(s, i) <=> slot[i] = s.file
  BY <1>2, <1>3, <1>4, <1>5, InodesAssumption DEF IsFile, FirstLineAt, d
<1> QED BY <1>6 DEF s

LEMMA GuardInit == LogInit => GuardInv
<1> SUFFICES ASSUME LogInit PROVE GuardInv
  OBVIOUS
<1>1. guard = <<>> /\ wpc = "idle" /\ \A f \in Inodes : data[f] = <<>>
  BY DEF LogInit
<1>2. \A f \in Inodes : UnitEvents(f) = {}
  BY <1>1 DEF UnitEvents, EventsIn
<1> QED BY <1>1, <1>2 DEF GuardInv, SegmentsInv, OneFileInv, RefusalInv

\* A file that only grew still holds a segment where it was written.
LEMMA SoundKept ==
  ASSUME NEW s \in Segment, NEW d \in Seq(Unit), NEW d2 \in Seq(Unit), Sound(s, d),
         Len(d) =< Len(d2), \A j \in 1..Len(d) : d2[j] = d[j]
  PROVE  Sound(s, d2)
<1>1. s.offset \in Nat /\ Len(d) \in Nat /\ Len(d2) \in Nat
  BY DEF Segment
<1>2. DOMAIN d \subseteq DOMAIN d2
  BY <1>1
<1>3. EventsIn(d) \subseteq EventsIn(d2)
  BY <1>2 DEF EventsIn
<1>4. s.offset + 2 =< Len(d) /\ s.offset + 1 \in 1..Len(d) /\ s.offset + 2 \in 1..Len(d)
  BY <1>1 DEF Sound
<1> QED BY <1>1, <1>3, <1>4 DEF Sound

\* Writing unit u of the event under way at the end of the live log f.
LEMMA UnitWritten ==
  ASSUME LogTypeOK, GuardInv, NEW f \in Inodes, NEW u \in Unit, u.ev = next,
         next \in Events, slot'[0] = f, wpc = "end" => slot' = slot,
         data' = [data EXCEPT ![f] = @ \o <<u>>]
  PROVE  /\ EventsIn(data'[f]) = UnitEvents(f) \cup {next}
         /\ \A g \in Inodes \ {f} : EventsIn(data'[g]) = UnitEvents(g)
         /\ data'[f][Len(data'[f])] = u
         /\ \A g \in Inodes : next \in UnitEvents(g) => g = f /\ wpc = "end"
<1>1. data[f] \in Seq(Unit) /\ data'[f] = data[f] \o <<u>>
  BY DEF LogTypeOK
<1>2. EventsIn(data'[f]) = UnitEvents(f) \cup {next}
  BY <1>1, EventsInAppend DEF UnitEvents
<1>3. \A g \in Inodes \ {f} : EventsIn(data'[g]) = UnitEvents(g)
  BY DEF UnitEvents, LogTypeOK
<1>4. data'[f][Len(data'[f])] = u
  BY <1>1
<1>5. \A g \in Inodes : next \in UnitEvents(g) => wpc = "end" /\ g = slot[0]
  BY SizesAssumption DEF GuardInv, OneFileInv, LogTypeOK, Events
<1> QED BY <1>2, <1>3, <1>4, <1>5

\* The writer's steps keep what the guard relies on.
LEMMA SegmentsKept ==
  ASSUME ~InodeReuse, LogTypeOK, FilesInv, SegmentsInv, NEW held, WriterNext(held),
         LogTypeOK', used \subseteq used', guard' = guard
  PROVE  SegmentsInv'
<1> SUFFICES ASSUME NEW k \in DOMAIN guard
             PROVE  guard[k].file \in used' /\ Sound(guard[k], data'[guard[k].file])
  BY DEF SegmentsInv
<1>1. guard[k] \in Segment /\ guard[k].file \in Inodes
  BY SegmentType
<1>2. guard[k].file \in used /\ Sound(guard[k], data[guard[k].file])
  BY DEF SegmentsInv
<1>3. data[guard[k].file] \in Seq(Unit) /\ data'[guard[k].file] \in Seq(Unit)
  BY <1>1 DEF LogTypeOK
<1>4. Sound(guard[k], data'[guard[k].file])
  BY <1>1, <1>2, <1>3, DataGrows, SoundKept
<1> QED BY <1>2, <1>4

\* The line f just got starts a segment, or extends the last one.
LEMMA SegmentWritten ==
  ASSUME ~InodeReuse, LogTypeOK, FilesInv, SegmentsInv, WriteEnd, LogTypeOK',
         guarded, NEW f \in Inodes, f = slot[0], f \in used, next \in Events,
         data'[f] = data[f] \o <<Line(next)[2]>>, data[f] # <<>>,
         data[f][Len(data[f])] = Line(next)[1]
  PROVE  SegmentsInv'
<1> DEFINE len  == Len(data[f]) + 1
           last == Len(guard)
           new  == [file |-> f, offset |-> len - 2, ev |-> next, end |-> len, events |-> {next}]
<1>1. data[f] \in Seq(Unit) /\ data'[f] \in Seq(Unit) /\ Len(data[f]) \in Nat \ {0}
      /\ guard \in Seq(Segment) /\ Line(next)[2] \in Unit /\ Line(next)[2].ev = next
  <2>1. data[f] \in Seq(Unit) /\ data'[f] \in Seq(Unit) /\ guard \in Seq(Segment)
    BY DEF LogTypeOK
  <2> QED BY <2>1, LineUnits DEF Line
<1>2. /\ Len(data'[f]) = len /\ data'[f][len] = Line(next)[2]
      /\ data'[f][len - 1] = Line(next)[1]
  BY <1>1
<1>3. next \in EventsIn(data'[f])
  BY <1>1, EventsInAppend
<1>4. \A k \in DOMAIN guard : /\ guard[k] \in Segment /\ guard[k].file \in used
                              /\ Sound(guard[k], data'[guard[k].file])
  <2>1. WriterNext({}) /\ LogTypeOK /\ FilesInv
    BY DEF WriterNext, WriterStep
  <2> SUFFICES ASSUME NEW k \in DOMAIN guard
               PROVE  /\ guard[k] \in Segment /\ guard[k].file \in used
                      /\ Sound(guard[k], data'[guard[k].file])
    OBVIOUS
  <2>2. guard[k] \in Segment /\ guard[k].file \in Inodes
    BY SegmentType
  <2>3. guard[k].file \in used /\ Sound(guard[k], data[guard[k].file])
    BY DEF SegmentsInv
  <2>4. data[guard[k].file] \in Seq(Unit) /\ data'[guard[k].file] \in Seq(Unit)
    BY <2>2 DEF LogTypeOK
  <2> QED BY <2>1, <2>2, <2>3, <2>4, DataGrows, SoundKept
<1>5. used' = used /\ Record(next, f, len)
  BY DEF WriteEnd
<1>6. SUFFICES \A k \in DOMAIN guard' : guard'[k].file \in used /\ Sound(guard'[k], data'[guard'[k].file])
  BY <1>5 DEF SegmentsInv
<1>7. CASE last > 0 /\ guard[last].file = f /\ len > guard[last].end
  <2>1. last \in DOMAIN guard /\ guard[last] \in Segment
    BY <1>1, <1>7
  <2>2. PICK ext : ext = [guard[last] EXCEPT !.end = len, !.events = @ \cup {next}]
    OBVIOUS
  <2>3. guard' = [guard EXCEPT ![last] = ext]
    BY <1>5, <1>7, <2>2 DEF Record
  <2>4. /\ ext.file = f /\ ext.offset = guard[last].offset /\ ext.ev = guard[last].ev
        /\ ext.events = guard[last].events \cup {next}
    BY <1>7, <2>1, <2>2 DEF Segment
  <2>5. Sound(guard[last], data'[f])
    BY <1>4, <1>7, <2>1
  <2>6. Sound(ext, data'[f])
    BY <1>3, <2>4, <2>5 DEF Sound
  <2>7. DOMAIN guard' = DOMAIN guard /\ guard'[last] = ext
        /\ \A k \in DOMAIN guard \ {last} : guard'[k] = guard[k]
    BY <2>1, <2>3
  <2> QED BY <1>4, <2>4, <2>6, <2>7
<1>8. CASE ~(last > 0 /\ guard[last].file = f /\ len > guard[last].end)
  <2>1. guard' = Append(guard, new)
    BY <1>5, <1>8 DEF Record
  <2>2. /\ DOMAIN guard' = DOMAIN guard \cup {last + 1} /\ guard'[last + 1] = new
        /\ \A k \in DOMAIN guard : guard'[k] = guard[k]
    <3> HIDE DEF new
    <3> QED BY <1>1, <2>1
  <2>3. new.offset + 1 = len - 1 /\ new.offset + 2 = len
    BY <1>1
  <2>4. Sound(new, data'[f])
    <3>1. data'[f][new.offset + 1] = Line(next)[1] /\ data'[f][new.offset + 2] = Line(next)[2]
          /\ new.offset + 2 =< Len(data'[f])
      BY <1>1, <1>2, <2>3
    <3> QED BY <1>3, <3>1 DEF Sound
  <2>5. new.file = f
    OBVIOUS
  <2> HIDE DEF new
  <2> QED BY <1>4, <2>2, <2>4, <2>5
<1> QED BY <1>7, <1>8

LEMMA GuardStep ==
  ASSUME ~InodeReuse, LogTypeOK, FilesInv, GuardInv, NEW held, WriterNext(held), LogTypeOK'
  PROVE  GuardInv'
<1> USE ArchivesAssumption, SizesAssumption, InodesAssumption
<1>1. CASE UNCHANGED <<data, used, guard>> /\ wpc' # "end"
  <2>1. SegmentsInv'
    BY <1>1 DEF GuardInv, SegmentsInv
  <2>2. next \in Int /\ next' \in Int /\ next' >= next /\ (wpc = "end" => next' > next)
    BY <1>1 DEF WriterNext, WriterStep, BeginAppend, RotateStep, WriteBody, WriteEnd, WriterFails,
                LogTypeOK
  <2>3. OneFileInv'
    <3>1. \A f \in Inodes : \A e \in EventsIn(data[f]) : e \in Int
      BY UnitEventsType DEF UnitEvents, Events
    <3>2. \A f \in Inodes : \A e \in EventsIn(data[f]) : e < next'
      BY <2>2, <3>1 DEF GuardInv, OneFileInv, UnitEvents
    <3> QED BY <1>1, <3>2 DEF GuardInv, OneFileInv, UnitEvents
  <2>4. RefusalInv'
    <3>1. ASSUME NEW g \in Guards, BeginAppend(g), guarded', wpc' = "rotate"
          PROVE  \A k \in DOMAIN guard : guard[k].file # slot[Archives]
      <4>1. CASE guarded /\ wpc = "rotate"
        BY <3>1, <4>1 DEF BeginAppend
      <4>2. ~RotationWouldDiscardOwnOutput
        BY <3>1 DEF BeginAppend
      <4> QED BY <4>2, SegmentFound DEF RotationWouldDiscardOwnOutput, GuardInv, Slots
    <3>2. CASE RotateStep
      BY <3>2 DEF RotateStep, RefusalInv, LogTypeOK, Slots
    <3>3. CASE WriterFails \/ WriteBody(held) \/ WriteEnd
      BY <3>3 DEF WriterFails, WriteBody, WriteEnd, RefusalInv
    <3>4. ASSUME NEW g \in Guards, BeginAppend(g) PROVE RefusalInv'
      BY <3>1, <3>4, <1>1 DEF RefusalInv, BeginAppend
    <3> QED BY <3>2, <3>3, <3>4 DEF WriterNext, WriterStep
  <2> QED BY <2>1, <2>3, <2>4 DEF GuardInv
<1>2. CASE WriteBody(held)
  <2>0. PICK u : u = Line(next)[1]
    OBVIOUS
  <2>1. next \in Events /\ u \in Unit /\ u.ev = next
    BY <1>2, <2>0, LineUnits DEF WriteBody, LogTypeOK, Line
  <2>2. PICK f \in Inodes : /\ slot'[0] = f /\ data' = [data EXCEPT ![f] = @ \o <<u>>]
                            /\ used \subseteq used'
    <3>1. CASE slot[0] # NoFile
      BY <1>2, <2>0, <3>1 DEF WriteBody, LogTypeOK, Slots
    <3>2. CASE slot[0] = NoFile
      <4>1. PICK g \in Free(held) : /\ slot' = [slot EXCEPT ![0] = g] /\ used' = used \cup {g}
                                    /\ data' = [data EXCEPT ![g] = <<u>>]
        BY <1>2, <2>0, <3>2 DEF WriteBody
      <4>2. g \in Inodes /\ data[g] = <<>> /\ slot'[0] = g
        BY <4>1 DEF Free, FilesInv, LogTypeOK, Slots
      <4>3. data[g] \o <<u>> = <<u>>
        BY <2>1, <4>2
      <4>4. data' = [data EXCEPT ![g] = @ \o <<u>>]
        BY <4>1, <4>3
      <4> QED BY <4>1, <4>2, <4>4
    <3> QED BY <3>1, <3>2
  <2>3. next' = next /\ wpc' = "end" /\ UNCHANGED guard /\ wpc = "write"
    BY <1>2 DEF WriteBody
  <2>4. /\ EventsIn(data'[f]) = EventsIn(data[f]) \cup {next}
        /\ \A g \in Inodes \ {f} : EventsIn(data'[g]) = EventsIn(data[g])
        /\ data'[f][Len(data'[f])] = u
        /\ \A g \in Inodes : next \notin EventsIn(data[g])
    <3>1. /\ EventsIn(data'[f]) = UnitEvents(f) \cup {next}
          /\ \A g \in Inodes \ {f} : EventsIn(data'[g]) = UnitEvents(g)
          /\ data'[f][Len(data'[f])] = u
          /\ \A g \in Inodes : next \in UnitEvents(g) => g = f /\ wpc = "end"
      BY <2>1, <2>2, <2>3, UnitWritten
    <3> QED BY <2>3, <3>1 DEF UnitEvents
  <2>5. SegmentsInv'
    BY <2>2, <2>3, SegmentsKept DEF GuardInv
  <2>6. OneFileInv'
    <3>1. \A g, h \in Inodes : \A e \in EventsIn(data'[g]) \cap EventsIn(data'[h]) : g = h
      BY <2>4 DEF GuardInv, OneFileInv, UnitEvents
    <3>2. \A g \in Inodes : \A e \in EventsIn(data'[g]) : e < next \/ (e = next /\ g = f)
      BY <2>3, <2>4 DEF GuardInv, OneFileInv, UnitEvents
    <3> QED BY <3>1, <3>2, <2>0, <2>2, <2>3, <2>4 DEF OneFileInv, UnitEvents
  <2> QED BY <2>3, <2>5, <2>6 DEF GuardInv, RefusalInv
<1>3. CASE WriteEnd
  <2>0. PICK f, u : f = slot[0] /\ u = Line(next)[2]
    OBVIOUS
  <2>1. next \in Events /\ u \in Unit /\ u.ev = next /\ f \in Inodes /\ f \in used /\ data[f] # <<>>
    <3>1. next \in Events /\ f \in Inodes /\ f \in used /\ data[f] # <<>>
      BY <1>3, <2>0 DEF WriteEnd, LogTypeOK, FilesInv, Linked, Slots
    <3> QED BY <2>0, <3>1, LineUnits DEF Line
  <2>2. /\ data' = [data EXCEPT ![f] = @ \o <<u>>] /\ UNCHANGED <<slot, used>>
        /\ next' = next + 1 /\ wpc' = "idle" /\ wpc = "end"
    BY <1>3, <2>0 DEF WriteEnd
  <2>4. data[f][Len(data[f])] = Line(next)[1]
    BY <2>0, <2>2 DEF GuardInv, OneFileInv
  <2>5. /\ EventsIn(data'[f]) = EventsIn(data[f]) \cup {next}
        /\ \A g \in Inodes \ {f} : EventsIn(data'[g]) = EventsIn(data[g])
        /\ \A g \in Inodes : next \in EventsIn(data[g]) => g = f
    BY <2>0, <2>1, <2>2, UnitWritten DEF UnitEvents
  <2>7. SegmentsInv'
    <3>1. data'[f] = data[f] \o <<u>>
      BY <2>1, <2>2 DEF LogTypeOK
    <3>2. CASE guarded
      BY <1>3, <2>0, <2>1, <2>4, <3>1, <3>2, SegmentWritten DEF GuardInv
    <3>3. CASE ~guarded
      BY <1>3, <2>2, <3>3, SegmentsKept DEF WriteEnd, GuardInv
    <3> QED BY <3>2, <3>3
  <2>8. OneFileInv'
    <3>1. \A g, h \in Inodes : \A e \in EventsIn(data'[g]) \cap EventsIn(data'[h]) : g = h
      BY <2>1, <2>5 DEF GuardInv, OneFileInv, UnitEvents
    <3>2. \A g \in Inodes : \A e \in EventsIn(data'[g]) : e < next + 1
      <4>1. \A g \in Inodes : \A e \in EventsIn(data[g]) : e \in Int
        BY UnitEventsType DEF UnitEvents, Events
      <4> QED BY <2>1, <2>5, <4>1 DEF GuardInv, OneFileInv, Events, UnitEvents
    <3> QED BY <3>1, <3>2, <2>2 DEF OneFileInv, UnitEvents
  <2> QED BY <2>2, <2>7, <2>8 DEF GuardInv, RefusalInv
<1> QED BY <1>1, <1>2, <1>3 DEF WriterNext, WriterStep, BeginAppend, RotateStep, WriterFails

\* The invariant of the log and of the guard, and that every step keeps it.
LEMMA GuardedLog ==
  ~InodeReuse => (LogSpec => [](LogTypeOK /\ FilesInv /\ OrderInv /\ GuardInv))
<1> SUFFICES ASSUME ~InodeReuse
             PROVE  LogSpec => [](LogTypeOK /\ FilesInv /\ OrderInv /\ GuardInv)
  OBVIOUS
<1> DEFINE Inv == LogTypeOK /\ FilesInv /\ OrderInv /\ GuardInv
<1>1. LogInit => Inv
  BY LogTypeInit, OrderInit, GuardInit
<1>2. Inv /\ [LogNext]_logVars => Inv'
  <2> SUFFICES ASSUME Inv, [LogNext]_logVars PROVE Inv'
    OBVIOUS
  <2>1. CASE LogNext
    BY <2>1, LogTypeStep, OrderStep, GuardStep DEF LogNext
  <2>2. CASE UNCHANGED logVars
    BY <2>2 DEF logVars, LogTypeOK, FilesInv, Linked, OrderInv, RotationInv,
                WrittenInv, OneName, OlderInHigherSlots, UnitEvents,
                GuardInv, SegmentsInv, OneFileInv, RefusalInv
  <2> QED BY <2>1, <2>2
<1> QED BY <1>1, <1>2, PTL DEF LogSpec

\* The report beside the log: the log's own steps go on as without it.
LEMMA ReportedLog ==
  ~InodeReuse => (ReportSpec => [](LogTypeOK /\ FilesInv /\ OrderInv /\ GuardInv))
<1>1. [ReportNext]_allVars => [LogNext]_logVars
  BY DEF ReportNext, WriterBeside, BeginReport, StatPath, CheckPath, LogNext, WriterNext,
         allVars, logVars
<1>2. ReportInit => LogInit
  BY DEF ReportInit
<1>3. ReportSpec => LogSpec
  BY <1>1, <1>2, PTL DEF ReportSpec, LogSpec
<1> QED BY <1>3, GuardedLog, PTL

\* A name that leads to a segment's first line leads to the segment's file.
LEMMA FirstLineOfFile ==
  ASSUME LogTypeOK, GuardInv, NEW k \in DOMAIN guard, NEW i \in Slots,
         FirstLineAt(guard[k], i)
  PROVE  slot[i] = guard[k].file
<1> DEFINE s == guard[k]
           d == data[slot[i]]
<1>1. s \in Segment /\ s.file \in Inodes /\ slot[i] \in Inodes
  BY SegmentType DEF FirstLineAt, LogTypeOK
<1>2. s.offset \in Nat /\ d \in Seq(Unit)
  BY <1>1 DEF Segment, LogTypeOK
<1>3. s.offset + 2 =< Len(d) /\ SubSeq(d, s.offset + 1, s.offset + 2) = Line(s.ev)
  BY DEF FirstLineAt
<1>4. s.offset + 2 =< Len(data[s.file]) /\ data[s.file][s.offset + 1] = Line(s.ev)[1]
  BY DEF GuardInv, SegmentsInv, Sound
<1>5. data[s.file] \in Seq(Unit) /\ Line(s.ev)[1].ev = s.ev
  BY <1>1 DEF LogTypeOK, Line
<1> HIDE DEF s, d
<1>6. SubSeq(d, s.offset + 1, s.offset + 2) = <<d[s.offset + 1], d[s.offset + 2]>>
  BY <1>2, <1>3, TwoUnits
<1>7. d[s.offset + 1] = Line(s.ev)[1]
  BY <1>3, <1>6 DEF Line
<1>8. s.offset + 1 \in DOMAIN d /\ s.offset + 1 \in DOMAIN data[s.file]
  <2>1. \A q \in Seq(Unit) : s.offset + 2 =< Len(q) => s.offset + 1 \in DOMAIN q
    BY <1>2
  <2> QED BY <1>2, <1>3, <1>4, <1>5, <2>1
<1>9. s.ev \in EventsIn(d) /\ s.ev \in EventsIn(data[s.file])
  BY <1>4, <1>5, <1>7, <1>8 DEF EventsIn
<1> QED BY <1>1, <1>9 DEF GuardInv, OneFileInv, UnitEvents, s, d

\* While a report is made the guard stays, and a file of it that the log holds
\* under a name it had not before was renamed.
LEMMA BesideReport ==
  ASSUME LogTypeOK, FilesInv, GuardInv, FoundInv, ~InodeReuse, Reporting, WriterBeside
  PROVE  /\ guard' = guard /\ (wpc' # "idle" => ~guarded')
         /\ \A k \in DOMAIN guard, i \in Slots :
              slot'[i] = guard[k].file /\ slot'[i] \notin moved' => slot[i] = slot'[i]
<1>1. moved' = moved \cup Renamed /\ rpc # "no"
  BY DEF WriterBeside, Reporting
<1>2. guard' = guard /\ (wpc' # "idle" => ~guarded')
  BY <1>1 DEF WriterBeside, WriterStep, BeginAppend, RotateStep, WriteBody, WriteEnd,
              WriterFails, FoundInv
<1>3. ASSUME NEW k \in DOMAIN guard, NEW i \in Slots, slot'[i] = guard[k].file,
             slot'[i] # slot[i]
      PROVE  slot'[i] \in moved'
  <2>0. guard[k].file \in Inodes /\ guard[k].file \in used /\ guard[k].file # NoFile
    BY SegmentType, InodesAssumption DEF GuardInv, SegmentsInv
  <2>1. CASE RotateStep
    <3>1. wslot \in Slots /\ wslot # Archives /\ slot'[i] = slot[wslot] /\ slot'[wslot] = NoFile
      <4>1. wslot \in Slots /\ Archives \in Slots /\ slot \in [Slots -> Inodes \cup {NoFile}]
        BY ArchivesAssumption DEF LogTypeOK, Slots
      <4>2. wslot # Archives
        BY <1>3, <2>0, <2>1, <4>1 DEF RotateStep
      <4>3. wslot + 1 \in Slots /\ wslot + 1 # wslot
        BY <4>1, <4>2, ArchivesAssumption DEF Slots
      <4>4. slot' = [slot EXCEPT ![wslot + 1] = slot[wslot], ![wslot] = NoFile]
        BY <1>3, <2>1, <4>2 DEF RotateStep
      <4>5. slot'[wslot] = NoFile
        BY <4>1, <4>3, <4>4
      <4>6. i = wslot + 1
        BY <1>3, <2>0, <4>1, <4>3, <4>4
      <4> QED BY <4>1, <4>2, <4>3, <4>4, <4>5, <4>6
    <3>2. slot[wslot] \in Renamed
      BY <1>3, <2>0, <3>1 DEF Renamed
    <3> QED BY <1>1, <3>1, <3>2
  <2>2. CASE WriteBody({})
    BY <1>3, <2>0, <2>2 DEF WriteBody, Free, LogTypeOK, Slots
  <2>3. CASE UNCHANGED slot
    BY <1>3, <2>3
  <2> QED
    BY <2>1, <2>2, <2>3 DEF WriterBeside, WriterStep, BeginAppend, WriteEnd, WriterFails
<1> QED BY <1>2, <1>3

\* Every step keeps what the report found.
LEMMA FoundStep ==
  ASSUME LogTypeOK, FilesInv, GuardInv, ~InodeReuse, ReportTypeOK, FoundInv,
         [ReportNext]_allVars
  PROVE  (ReportTypeOK /\ FoundInv)'
<1>1. CASE WriterBeside
  <2>1. UNCHANGED <<rpc, look, kept, seg>>
    BY <1>1 DEF WriterBeside
  <2>2. CASE ~Reporting
    BY <2>1, <2>2 DEF Reporting, ReportTypeOK, FoundInv
  <2>3. CASE Reporting
    <3>1. moved \subseteq moved'
      BY <1>1 DEF WriterBeside
    <3>2. /\ guard' = guard /\ (wpc' # "idle" => ~guarded')
          /\ \A k \in DOMAIN guard, i \in Slots :
               slot'[i] = guard[k].file /\ slot'[i] \notin moved' => slot[i] = slot'[i]
      BY <1>1, <2>3, BesideReport
    <3>3. \A k \in DOMAIN guard', i \in Slots :
            slot'[i] = guard'[k].file /\ slot'[i] \notin moved' =>
              \/ rpc' = "stat" /\ look' =< i
              \/ kept'[i] = slot'[i] /\ (rpc' = "check" /\ k = seg' => look' =< i)
      BY <2>1, <2>3, <3>1, <3>2 DEF FoundInv
    <3> QED BY <2>1, <2>3, <3>2, <3>3 DEF FoundInv, ReportTypeOK, Reporting
  <2> QED BY <2>2, <2>3
<1>2. CASE BeginReport
  BY <1>2, ArchivesAssumption
     DEF BeginReport, Reporting, ReportTypeOK, FoundInv, logVars, LogTypeOK, Slots
<1>3. CASE StatPath
  <2>1. /\ look \in 0..Archives /\ Archives \in Nat /\ UNCHANGED <<seg, moved, slot, guard, guarded, wpc>>
        /\ Reporting /\ Reporting' /\ rpc = "stat"
        /\ kept' = [kept EXCEPT ![look] = slot[look]]
        /\ \/ look = Archives /\ rpc' = "check" /\ look' = 0
           \/ look # Archives /\ rpc' = "stat" /\ look' = look + 1
    BY <1>3, ArchivesAssumption DEF StatPath, Reporting, ReportTypeOK, Slots, logVars
  <2>2. ReportTypeOK'
    BY <2>1 DEF ReportTypeOK, LogTypeOK, Slots
  <2>3. ASSUME NEW k \in DOMAIN guard, NEW i \in Slots,
               slot[i] = guard[k].file, slot[i] \notin moved
        PROVE  \/ rpc' = "stat" /\ look' =< i
               \/ kept'[i] = slot[i] /\ (rpc' = "check" /\ k = seg => look' =< i)
    <3>1. look =< i \/ kept[i] = slot[i]
      BY <2>1, <2>3 DEF FoundInv
    <3>2. i \in 0..Archives
      BY DEF Slots
    <3>3. i = look => kept'[i] = slot[i]
      BY <2>1, <3>2 DEF ReportTypeOK, Slots
    <3>4. i # look => kept'[i] = kept[i]
      BY <2>1, <3>2 DEF ReportTypeOK, Slots
    <3> QED BY <2>1, <3>1, <3>2, <3>3, <3>4
  <2> QED BY <2>1, <2>2, <2>3 DEF FoundInv
<1>4. CASE CheckPath
  <2>1. PICK s : s = guard[seg]
    OBVIOUS
  <2>2. PICK found \in BOOLEAN : found = (kept[look] = s.file /\ FirstLineAt(s, look))
    OBVIOUS
  <2>3. /\ look \in 0..Archives /\ Archives \in Nat /\ UNCHANGED <<kept, moved, slot, guard, guarded, wpc>>
        /\ Reporting /\ rpc = "check" /\ seg \in 1..Len(guard) /\ Len(guard) \in Nat
        /\ \/ (found \/ look = Archives) /\ EndSegment
           \/ ~found /\ look # Archives /\ look' = look + 1 /\ UNCHANGED <<rpc, seg>>
    <3>1. seg \in DOMAIN guard /\ guard \in Seq(Segment)
      BY <1>4 DEF CheckPath, FoundInv, Reporting, LogTypeOK
    <3> QED BY <1>4, <2>1, <2>2, <3>1, ArchivesAssumption
            DEF CheckPath, Reporting, ReportTypeOK, Slots, logVars
  <2>4. CASE EndSegment
    BY <2>3, <2>4 DEF EndSegment, FoundInv, ReportTypeOK, Reporting, Slots, LogTypeOK
  <2>5. CASE ~found /\ look # Archives /\ look' = look + 1 /\ UNCHANGED <<rpc, seg>>
    <3>1. \A i \in Slots : slot[i] = guard[seg].file /\ slot[i] \notin moved =>
            kept[i] = slot[i] /\ look =< i
      BY <2>3 DEF FoundInv
    <3>2. look \in Slots /\ seg \in DOMAIN guard
      BY <2>3 DEF Slots, LogTypeOK
    <3>3. slot[look] = s.file /\ slot[look] \notin moved => found
      BY <2>1, <2>2, <3>1, <3>2, SegmentFound DEF GuardInv, IsFile
    <3>4. \A i \in Slots : slot[i] = guard[seg].file /\ slot[i] \notin moved => look + 1 =< i
      BY <2>1, <2>3, <2>5, <3>1, <3>3 DEF Slots
    <3> QED BY <2>3, <2>5, <3>1, <3>4 DEF FoundInv, ReportTypeOK, Reporting, Slots
  <2> QED BY <2>3, <2>4, <2>5
<1>5. CASE UNCHANGED allVars
  BY <1>5 DEF allVars, reportVars, logVars, ReportTypeOK, FoundInv, Reporting
<1> QED BY <1>1, <1>2, <1>3, <1>4, <1>5 DEF ReportNext

\* What the retention guard reports, file by file and beside writers that
\* rotate: nothing that is gone, and nothing left out but what is gone or in a
\* file renamed while it looked (RetentionGuard.Retained).
THEOREM ReportCorrect == ~InodeReuse => (ReportSpec => ReportIsExact)
<1> SUFFICES ASSUME ~InodeReuse PROVE ReportSpec => ReportIsExact
  OBVIOUS
<1> DEFINE Inv == LogTypeOK /\ FilesInv /\ OrderInv /\ GuardInv
           Exact == /\ counted' \ counted \subseteq Retained
                    /\ seg' # seg => \/ guard[seg].events \subseteq counted'
                                     \/ guard[seg].events \cap Retained = {}
                                     \/ guard[seg].file \in moved
<1>1. ReportInit => ReportTypeOK /\ FoundInv
  BY ArchivesAssumption DEF LogInit, ReportInit, ReportTypeOK, FoundInv, Reporting, Slots
<1>2. Inv /\ ReportTypeOK /\ FoundInv /\ [ReportNext]_allVars => (ReportTypeOK /\ FoundInv)'
  BY FoundStep
<1>3. Inv /\ ReportTypeOK /\ FoundInv /\ [ReportNext]_allVars => [Exact]_allVars
  <2> SUFFICES ASSUME Inv, ReportTypeOK, FoundInv, ReportNext PROVE Exact \/ UNCHANGED allVars
    OBVIOUS
  <2>1. CASE CheckPath
    <3>1. PICK s : s = guard[seg]
      OBVIOUS
    <3>2. PICK found \in BOOLEAN : found = (kept[look] = s.file /\ FirstLineAt(s, look))
      OBVIOUS
    <3>3. /\ counted' = IF found THEN counted \cup s.events ELSE counted
          /\ seg' # seg => found \/ look = Archives
          /\ seg \in DOMAIN guard /\ look \in Slots /\ rpc = "check"
      BY <2>1, <3>1, <3>2 DEF CheckPath, FoundInv, Reporting, ReportTypeOK
    <3>4. s.file \in Inodes /\ s.events \subseteq EventsIn(data[s.file])
      BY <3>1, <3>3, SegmentType DEF GuardInv, SegmentsInv, Sound
    <3>5. \A i \in Slots : slot[i] # NoFile => slot[i] \in Linked
      BY DEF Linked
    <3>6. found => s.file \in Linked
      BY <3>1, <3>2, <3>3, <3>5, FirstLineOfFile DEF FirstLineAt
    <3>7. counted' \ counted \subseteq Retained
      BY <3>3, <3>4, <3>6 DEF Retained
    <3>8. ASSUME ~found, look = Archives, s.file \notin moved, NEW e \in s.events \cap Retained
          PROVE  FALSE
      <4>1. PICK f \in Linked : e \in EventsIn(data[f])
        BY <3>8 DEF Retained
      <4>2. f = s.file
        BY <3>4, <3>8, <4>1 DEF FilesInv, LogTypeOK, GuardInv, OneFileInv, UnitEvents
      <4>3. PICK i \in Slots : slot[i] = s.file
        BY <4>1, <4>2 DEF Linked
      <4>4. kept[i] = slot[i] /\ look =< i
        BY <3>1, <3>3, <3>8, <4>3 DEF FoundInv, Reporting
      <4>5. i = look
        BY <3>8, <4>4, ArchivesAssumption DEF Slots
      <4>6. IsFile(s, look)
        BY <3>1, <3>3, <4>3, <4>5, SegmentFound DEF GuardInv
      <4> QED BY <3>2, <3>8, <4>3, <4>4, <4>5, <4>6 DEF IsFile
    <3> QED BY <3>1, <3>3, <3>7, <3>8
  <2>2. CASE ~CheckPath
    <3>1. counted' = counted /\ (seg' = seg \/ BeginReport)
      BY <2>2 DEF ReportNext, WriterBeside, BeginReport, StatPath
    <3>2. BeginReport => seg' = seg
      BY DEF BeginReport, FoundInv
    <3> QED BY <3>1, <3>2
  <2> QED BY <2>1, <2>2
<1>4. ReportSpec => []Inv
  BY ReportedLog
<1> QED BY <1>1, <1>2, <1>3, <1>4, PTL DEF ReportSpec, ReportIsExact

\* No rotation of a guarded append deletes an event the guarded run wrote
\* (appendJSONL's refusal, ErrRetentionWindowFull).
THEOREM GuardCorrect == ~InodeReuse => (LogSpec => GuardKeepsOwnOutput)
<1> SUFFICES ASSUME ~InodeReuse PROVE LogSpec => GuardKeepsOwnOutput
  OBVIOUS
<1> DEFINE Inv == LogTypeOK /\ FilesInv /\ OrderInv /\ GuardInv
           Keeps == guarded /\ wpc = "rotate" => GuardedEvents \cap Retained \subseteq Retained'
<1>1. Inv /\ Inv' /\ [LogNext]_logVars => [Keeps]_logVars
  <2> SUFFICES ASSUME Inv, LogNext, guarded, wpc = "rotate",
                      NEW e \in GuardedEvents \cap Retained
               PROVE  e \in Retained'
    OBVIOUS
  <2>1. WriterNext({})
    BY DEF LogNext
  <2>2. PICK k \in DOMAIN guard : e \in guard[k].events
    BY DEF GuardedEvents
  <2>3. PICK f \in Linked : e \in EventsIn(data[f])
    BY DEF Retained, UnitEvents
  <2>4. f \in Inodes /\ guard[k].file \in Inodes /\ e \in EventsIn(data[guard[k].file])
    BY <2>2, SegmentType DEF FilesInv, LogTypeOK, GuardInv, SegmentsInv, Sound
  <2>5. f = guard[k].file
    BY <2>3, <2>4 DEF GuardInv, OneFileInv, UnitEvents
  <2>6. f \in Linked'
    BY <2>1, <2>5, StepDeletes DEF GuardInv, RefusalInv
  <2>7. data' = data
    BY <2>1 DEF WriterNext, WriterStep, BeginAppend, RotateStep, WriteBody, WriteEnd, WriterFails
  <2> QED BY <2>3, <2>6, <2>7 DEF Retained, UnitEvents
<1>2. LogSpec => []Inv
  BY GuardedLog
<1> QED BY <1>1, <1>2, PTL DEF LogSpec, GuardKeepsOwnOutput

-----------------------------------------------------------------------------
(* The forwarder.                                                           *)

\* The maximum of a bounded, non-empty set of naturals is its largest element.
LEMMA MaxBounded ==
  ASSUME NEW n \in Nat, NEW S \in SUBSET (0..n), S # {}
  PROVE  Max(S) \in S /\ \A x \in S : x =< Max(S)
<1> DEFINE T == {n - x : x \in S}
           R == OpToRel(<, Nat)
<1>1. T \subseteq Nat /\ T # {}
  <2>1. PICK x \in S : TRUE
    OBVIOUS
  <2>2. n - x \in T
    BY <2>1
  <2>3. \A y \in S : n - y \in Nat
    OBVIOUS
  <2> QED BY <2>2, <2>3
<1>2. \E t \in T : \A y \in T : ~(<<y, t>> \in R)
  <2> HIDE DEF T
  <2> QED BY <1>1, NatLessThanWellFounded, WFMin
<1>3. PICK t \in T : \A y \in T : ~(y < t)
  BY <1>1, <1>2 DEF OpToRel
<1>4. PICK m \in S : t = n - m
  OBVIOUS
<1>5. \A x \in S : m >= x
  <2> TAKE x \in S
  <2>1. n - x \in T /\ ~(n - x < n - m)
    BY <1>3, <1>4
  <2> QED BY <2>1
<1>6. Max(S) \in S /\ \A x \in S : Max(S) >= x
  BY <1>5 DEF Max
<1> QED BY <1>6

\* lastLineEnd is within the bytes it was given, and just past a newline or 0.
LEMMA LastLineEndType ==
  ASSUME NEW f, NEW size \in Nat
  PROVE  /\ LastLineEnd(f, size) \in 0..size
         /\ LastLineEnd(f, size) = 0 \/ data[f][LastLineEnd(f, size)].nl
<1> DEFINE S == {0} \cup {j \in 1..size : data[f][j].nl}
<1>1. S \in SUBSET (0..size) /\ S # {}
  OBVIOUS
<1>2. Max(S) \in S
  BY <1>1, MaxBounded
<1>3. LastLineEnd(f, size) = Max(S)
  BY DEF LastLineEnd
<1> QED BY <1>2, <1>3

\* The elements of the forwarder's sequences.
LEMMA Elements ==
  ASSUME FwdTypeOK
  PROVE  /\ \A i \in DOMAIN views : /\ views[i].key \in Inodes /\ views[i].size \in Nat
                                    /\ views[i].path \in Slots
         /\ \A i \in DOMAIN batch : /\ batch[i] \in Entry /\ batch[i].key \in Inodes
                                    /\ batch[i].end \in Nat /\ batch[i].evs \subseteq Events
<1>1. \A i \in DOMAIN views : views[i] \in View
  BY DEF FwdTypeOK
<1>2. \A i \in DOMAIN batch : batch[i] \in Entry
  BY DEF FwdTypeOK
<1> QED BY <1>1, <1>2 DEF View, Entry

-----------------------------------------------------------------------------
(* What an offset covers stays covered.                                     *)

LEMMA CoveredMono ==
  ASSUME NEW content, NEW off, NEW S, NEW T, S \subseteq T, Covered(content, off, S)
  PROVE  Covered(content, off, T)
BY DEF Covered

LEMMA CoveredGrows ==
  ASSUME NEW s \in Seq(Unit), NEW t \in Seq(Unit), Len(s) =< Len(t),
         \A j \in 1..Len(s) : t[j] = s[j],
         NEW off \in Nat, NEW S, Covered(s, off, S)
  PROVE  Covered(t, off, S)
<1>1. off =< Len(s) /\ off =< Len(t)
  BY DEF Covered
<1>2. \A j \in 1..off : t[j] = s[j]
  BY <1>1
<1>3. off # 0 => off \in 1..off
  OBVIOUS
<1> QED BY <1>1, <1>2, <1>3 DEF Covered

\* A step of the forwarder that writes nothing to the log but a fault.
LEMMA LogKept ==
  ASSUME LogTypeOK, FilesInv, faults' \in 0..MaxFaults,
         UNCHANGED <<slot, data, used, next, wpc, wslot, guarded, guard>>
  PROVE  LogTypeOK' /\ FilesInv'
BY DEF LogTypeOK, FilesInv, Linked

\* Checkpoints are covered after a step that only hands them on.
LEMMA HandedOn ==
  ASSUME Inductive, UNCHANGED data, Settled \subseteq Settled',
         st' \in {st, disk, Fresh}, disk' \in {st, disk}
  PROVE  CheckpointsCovered(st)' /\ CheckpointsCovered(disk)'
<1>1. \A s \in {st, disk, Fresh} : CheckpointsCovered(s)
  BY DEF Inductive, CheckpointsCovered, Fresh
<1>2. \A s \in {st, disk, Fresh} : \A f \in Inodes :
        s.files[f] # NoCp => Covered(data'[f], s.files[f].off, Settled')
  BY <1>1, CoveredMono DEF CheckpointsCovered
<1> QED BY <1>2 DEF CheckpointsCovered

\* A batch is covered after a step that keeps it, but for the kinds of entries.
LEMMA BatchKept ==
  ASSUME BatchInv, UNCHANGED data, Settled \subseteq Settled',
         DOMAIN batch' = DOMAIN batch, batch \in Seq(Entry),
         \A i \in DOMAIN batch : /\ batch'[i].key = batch[i].key
                                 /\ batch'[i].end = batch[i].end
                                 /\ batch'[i].evs = batch[i].evs
  PROVE  BatchInv'
<1> SUFFICES ASSUME NEW i \in DOMAIN batch
             PROVE  Covered(data[batch[i].key], batch[i].end,
                            Settled' \cup UNION {batch'[m].evs : m \in 1..i})
  BY DEF BatchInv, EvsUpTo
<1>1. UNION {batch'[m].evs : m \in 1..i} = UNION {batch[m].evs : m \in 1..i}
  <2>1. \A m \in 1..i : m \in DOMAIN batch
    OBVIOUS
  <2> QED BY <2>1
<1> DEFINE U == UNION {batch[m].evs : m \in 1..i}
<1>2. Covered(data[batch[i].key], batch[i].end, Settled \cup U)
  BY DEF BatchInv, EvsUpTo
<1>3. Settled \cup U \subseteq Settled' \cup U
  OBVIOUS
<1> HIDE DEF U
<1>4. Covered(data[batch[i].key], batch[i].end, Settled' \cup U)
  BY <1>2, <1>3, CoveredMono
<1> QED BY <1>1, <1>4 DEF U

\* Back to idle or down: nothing is open, read or under delivery.
LEMMA AtRest ==
  ASSUME Inductive, UNCHANGED <<slot, data, used, next, wpc, wslot, guarded, guard>>,
         faults' \in 0..MaxFaults, Settled \subseteq Settled',
         st' \in {st, disk, Fresh}, disk' \in {st, disk},
         views' = <<>>, batch' = <<>>, sent' = 0,
         fpc' \notin {"post", "commit", "save"}, FwdTypeOK'
  PROVE  Inductive'
<1>1. LogTypeOK' /\ FilesInv'
  BY LogKept DEF Inductive, TypeOK
<1>2. ViewsInv' /\ BatchInv' /\ SentInv'
  BY DEF ViewsInv, BatchInv, SentInv
<1> QED BY <1>1, <1>2, HandedOn DEF Inductive, TypeOK

-----------------------------------------------------------------------------
(* One lemma per group of actions.                                          *)

\* The writers only append, rename and delete: what a checkpoint or an entry
\* covers stays where it was.
LEMMA WritersStep ==
  ASSUME Inductive, ~InodeReuse, Writers
  PROVE  Inductive'
<1> USE DEF Inductive, TypeOK
<1>1. WriterNext(ViewKeys) /\ UNCHANGED fwdVars
  BY DEF Writers
<1>2. LogTypeOK' /\ FilesInv'
  BY <1>1, LogTypeStep
<1>3. FwdTypeOK' /\ Settled' = Settled
  BY <1>1 DEF fwdVars, FwdTypeOK, Settled
<1>4. \A f \in Inodes : /\ data[f] \in Seq(Unit) /\ data'[f] \in Seq(Unit)
                        /\ Len(data[f]) =< Len(data'[f])
                        /\ \A j \in 1..Len(data[f]) : data'[f][j] = data[f][j]
  BY <1>1, <1>2, DataGrows DEF LogTypeOK
<1>5. \A s \in {st, disk} : \A f \in Inodes :
        s.files[f] # NoCp => s.files[f].off \in Nat
  BY DEF FwdTypeOK, State, Checkpoint
<1>6. \A s \in {st, disk} : \A f \in Inodes :
        s.files[f] # NoCp => Covered(data'[f], s.files[f].off, Settled')
  BY <1>3, <1>4, <1>5, CoveredGrows DEF CheckpointsCovered
<1>7. CheckpointsCovered(st)' /\ CheckpointsCovered(disk)'
  BY <1>1, <1>6 DEF CheckpointsCovered, fwdVars
<1>8. ViewsInv'
  <2>1. \A i \in DOMAIN views : views[i].key \in Inodes /\ views[i].size \in Nat
    BY Elements
  <2>2. \A f \in Inodes : Len(data[f]) \in Nat /\ Len(data'[f]) \in Nat
    BY <1>4
  <2> QED BY <1>1, <1>4, <2>1, <2>2 DEF ViewsInv, fwdVars
<1>9. BatchInv'
  <2> DEFINE U(i) == UNION {batch[m].evs : m \in 1..i}
  <2>1. \A i \in DOMAIN batch : Covered(data[batch[i].key], batch[i].end, Settled \cup U(i))
    BY DEF BatchInv, EvsUpTo
  <2>2. \A i \in DOMAIN batch : batch[i].key \in Inodes /\ batch[i].end \in Nat
    BY Elements
  <2> HIDE DEF U
  <2>3. \A i \in DOMAIN batch : Covered(data'[batch[i].key], batch[i].end, Settled \cup U(i))
    BY <1>4, <2>1, <2>2, CoveredGrows
  <2>4. BatchInv' <=>
          \A i \in DOMAIN batch : Covered(data'[batch[i].key], batch[i].end, Settled \cup U(i))
    <3>1. batch' = batch /\ Settled' = Settled
      BY <1>1, <1>3 DEF fwdVars
    <3> QED BY <3>1 DEF BatchInv, EvsUpTo, U
  <2> QED BY <2>3, <2>4
<1>10. SentInv'
  BY <1>1, <1>3 DEF SentInv, Part, fwdVars
<1> QED BY <1>2, <1>3, <1>7, <1>8, <1>9, <1>10

LEMMA StartStep ==
  ASSUME Inductive, NEW r, r \in Starts \cup {Service}, Start(r)
  PROVE  Inductive'
<1> USE DEF Inductive, TypeOK
<1>1. UNCHANGED logVars /\ Settled' = Settled
  BY DEF Start, Settled
<1>2. LogTypeOK' /\ FilesInv'
  BY <1>1, LogKept DEF LogTypeOK, logVars
<1>3. r \in [mode : {"service", "once", "prime"}, backfill : BOOLEAN]
  <2>1. Service \in [mode : {"service", "once", "prime"}, backfill : BOOLEAN]
    BY DEF Service
  <2> QED BY <2>1, StartsAssumption
<1>4. Fresh \in State
  BY DEF Fresh, State
<1>5. starts' \in 0..MaxStarts
  BY StartsAssumption DEF Start, FwdTypeOK
<1>6. FwdTypeOK'
  BY <1>3, <1>4, <1>5 DEF Start, FwdTypeOK
<1>7. st' \in {st, disk, Fresh} /\ disk' = disk /\ data' = data
  BY <1>1 DEF Start, logVars
<1>8. CheckpointsCovered(st)' /\ CheckpointsCovered(disk)'
  BY <1>1, <1>7, HandedOn
<1>9. ViewsInv' /\ SentInv'
  BY <1>7 DEF ViewsInv, SentInv, Start
<1>10. BatchInv'
  BY <1>1, <1>7, BatchKept DEF Start, FwdTypeOK
<1> QED BY <1>2, <1>6, <1>8, <1>9, <1>10

\* An action of the forwarder's that leaves the log, the batch and the
\* checkpoints as they are.
LEMMA LookingStep ==
  ASSUME Inductive, UNCHANGED <<logVars, st, disk, batch, sent>>,
         Settled' = Settled, FwdTypeOK', ViewsInv',
         fpc \notin {"post", "commit", "save"}, fpc' \notin {"post", "commit", "save"}
  PROVE  Inductive'
<1>1. LogTypeOK' /\ FilesInv'
  BY LogKept DEF logVars, LogTypeOK, Inductive, TypeOK
<1>2. CheckpointsCovered(st)' /\ CheckpointsCovered(disk)'
  BY HandedOn DEF logVars
<1>3. BatchInv'
  BY BatchKept DEF logVars, FwdTypeOK, Inductive, TypeOK
<1>4. SentInv'
  BY DEF SentInv, Inductive
<1> QED BY <1>1, <1>2, <1>3, <1>4 DEF Inductive, TypeOK

LEMMA OpenViewStep ==
  ASSUME Inductive, OpenView
  PROVE  Inductive'
<1> DEFINE f == slot[opening]
           v == [key |-> f, size |-> Len(data[f]), path |-> opening]
<1>1. LogTypeOK /\ FwdTypeOK /\ ViewsInv
  BY DEF Inductive, TypeOK
<1>2. UNCHANGED <<logVars, st, disk, batch, sent>> /\ Settled' = Settled
  BY DEF OpenView, Settled
<1>3. fpc = "open" /\ fpc' \in {"open", "reconcile"}
  BY DEF OpenView
<1>4. opening \in Slots /\ opening' \in Slots
  BY <1>1, ArchivesAssumption DEF OpenView, FwdTypeOK, Slots
<1>5. views' = views \/ (f # NoFile /\ views' = <<v>> \o views)
  BY DEF OpenView
<1>6. CASE views' = views
  <2>1. FwdTypeOK'
    BY <1>1, <1>3, <1>4, <1>6 DEF OpenView, FwdTypeOK
  <2>2. ViewsInv'
    BY <1>1, <1>2, <1>3, <1>6 DEF ViewsInv, logVars
  <2> QED BY <1>2, <1>3, <2>1, <2>2, LookingStep
<1>7. CASE f # NoFile /\ views' = <<v>> \o views
  <2>1. f \in Inodes /\ Len(data[f]) \in Nat
    BY <1>1, <1>4, <1>7 DEF LogTypeOK
  <2>2. v \in View /\ v.key = f /\ v.size = Len(data[f])
    BY <1>4, <2>1 DEF View
  <2> HIDE DEF v
  <2>3. views \in Seq(View) /\ views' \in Seq(View)
    BY <1>1, <1>7, <2>2 DEF FwdTypeOK
  <2>4. FwdTypeOK'
    BY <1>1, <1>3, <1>4, <2>3 DEF OpenView, FwdTypeOK
  <2>5. \A i \in DOMAIN views' : views'[i] = v \/ \E k \in DOMAIN views : views'[i] = views[k]
    <3>1. DOMAIN views' = 1..(Len(views) + 1) /\ DOMAIN views = 1..Len(views)
          /\ Len(views) \in Nat
      BY <1>7, <2>3
    <3>2. \A i \in 1..(Len(views) + 1) : views'[i] = IF i = 1 THEN v ELSE views[i - 1]
      BY <1>7, <2>3
    <3>3. \A i \in 1..(Len(views) + 1) : i # 1 => i - 1 \in 1..Len(views)
      BY <3>1
    <3> QED BY <3>1, <3>2, <3>3
  <2>6. ViewsInv'
    BY <1>1, <1>2, <1>3, <2>1, <2>2, <2>5 DEF ViewsInv, logVars
  <2> QED BY <1>2, <1>3, <2>4, <2>6, LookingStep
<1> QED BY <1>5, <1>6, <1>7

\* The steps that neither open a view, nor reconcile, nor touch the batch.
LEMMA PassingStep ==
  ASSUME Inductive, StartScan \/ NextView
  PROVE  Inductive'
<1>1. FwdTypeOK /\ ViewsInv
  BY DEF Inductive, TypeOK
<1>2. /\ UNCHANGED <<logVars, st, disk, batch, sent>> /\ Settled' = Settled
      /\ fpc \in {"idle", "read"} /\ fpc' \in {"open", "read"}
  BY DEF StartScan, NextView, Settled
<1>3. CASE StartScan
  <2>1. FwdTypeOK' /\ ViewsInv'
    BY <1>1, <1>3 DEF StartScan, FwdTypeOK, ViewsInv, logVars
  <2> QED BY <1>2, <2>1, LookingStep
<1>4. CASE NextView
  <2>1. views # <<>> /\ views' = Tail(views) /\ fpc' = fpc
    BY <1>4 DEF NextView
  <2>2. /\ views' \in Seq(View)
        /\ \A i \in DOMAIN views' : i + 1 \in DOMAIN views /\ views'[i] = views[i + 1]
    BY <1>1, <2>1 DEF FwdTypeOK
  <2>3. FwdTypeOK'
    BY <1>1, <1>4, <2>2 DEF NextView, FwdTypeOK
  <2>4. ViewsInv'
    BY <1>1, <1>2, <2>1, <2>2 DEF ViewsInv, logVars
  <2> QED BY <1>2, <2>3, <2>4, LookingStep
<1> QED BY <1>3, <1>4

LEMMA PersistStep ==
  ASSUME Inductive, Persist
  PROVE  Inductive'
<1>1. FwdTypeOK /\ ViewsInv
  BY DEF Inductive, TypeOK
<1>2. UNCHANGED <<logVars, st, batch, sent, views>> /\ Settled' = Settled /\ disk' = st
      /\ fpc = "persist" /\ fpc' = "read"
  BY DEF Persist, Settled
<1>3. LogTypeOK' /\ FilesInv'
  BY <1>2, LogKept DEF logVars, LogTypeOK, Inductive, TypeOK
<1>4. CheckpointsCovered(st)' /\ CheckpointsCovered(disk)'
  BY <1>2, HandedOn DEF logVars
<1>5. BatchInv'
  BY <1>2, BatchKept DEF logVars, FwdTypeOK, Inductive, TypeOK
<1>6. SentInv' /\ ViewsInv'
  BY <1>1, <1>2 DEF SentInv, Inductive, ViewsInv, logVars
<1>7. FwdTypeOK'
  BY <1>1 DEF Persist, FwdTypeOK
<1> QED BY <1>3, <1>4, <1>5, <1>6, <1>7 DEF Inductive, TypeOK

\* The part under delivery lies in the batch.
LEMMA PartInBatch ==
  ASSUME Inductive, fpc \in {"post", "commit", "save"}
  PROVE  /\ cuts # <<>> /\ Head(cuts) \in Nat /\ Head(cuts) =< Len(batch)
         /\ sent \in Nat /\ Len(batch) \in Nat
         /\ PartData \subseteq Part /\ Part \subseteq DOMAIN batch
<1>1. /\ cuts \in Seq(Nat) /\ cuts # <<>> /\ \A k \in DOMAIN cuts : cuts[k] =< Len(batch)
      /\ sent \in Nat /\ batch \in Seq(Entry)
  BY DEF Inductive, TypeOK, FwdTypeOK, SentInv
<1>2. Head(cuts) = cuts[1] /\ 1 \in DOMAIN cuts
  BY <1>1
<1> HIDE <1>1
<1>3. Head(cuts) \in Nat /\ Head(cuts) =< Len(batch) /\ Len(batch) \in Nat
      /\ DOMAIN batch = 1..Len(batch)
  BY <1>1, <1>2
<1> QED BY <1>1, <1>3 DEF PartData, DataLines, Part

\* The steps that end at rest, whatever they leave undone.
LEMMA RestingStep ==
  ASSUME Inductive,
         EndPlace \/ NothingToRead \/ WaitForMore \/ PostFails \/ SaveFailed \/ Crash
  PROVE  Inductive'
<1>1. FwdTypeOK /\ LogTypeOK
  BY DEF Inductive, TypeOK
<1>2. Fresh \in State
  BY DEF Fresh, State
<1>3. Service \in [mode : {"service", "once", "prime"}, backfill : BOOLEAN]
  BY DEF Service
<1>4. 0 \in Slots /\ 0 \in Nat
  BY ArchivesAssumption DEF Slots
<1>5. Halt \/ (Rest /\ UNCHANGED <<run, st>> /\ pending' \in BOOLEAN)
  BY <1>1 DEF EndPlace, NothingToRead, WaitForMore, PostFails, SaveFailed, Crash, GiveUp, FwdTypeOK
<1>6. /\ UNCHANGED <<slot, data, used, next, wpc, wslot, guarded, guard, disk, starts, passed>>
      /\ accepted' = accepted \/ (fpc = "post" /\ accepted' = accepted \cup PartLines)
      /\ faults' \in 0..MaxFaults /\ unsaved' \in Nat
  BY <1>1, FaultsAssumption
     DEF EndPlace, NothingToRead, WaitForMore, EndScan, PostFails, SaveFailed, Crash,
         logVars, LogTypeOK, FwdTypeOK
<1>7. fpc = "post" => PartLines \subseteq Events
  BY <1>1, Elements, PartInBatch DEF PartLines
<1>8. FwdTypeOK'
  <2>1. accepted' \subseteq Events /\ passed' \subseteq Events /\ starts' \in 0..MaxStarts
        /\ disk' \in State /\ unsaved' \in Nat
    BY <1>1, <1>6, <1>7 DEF FwdTypeOK
  <2>2. << >> \in Seq(View) /\ << >> \in Seq(Entry) /\ << >> \in Seq(Nat)
    OBVIOUS
  <2>3. CASE Halt
    BY <1>2, <1>3, <1>4, <2>1, <2>2, <2>3 DEF Halt, FwdTypeOK
  <2>4. CASE Rest /\ UNCHANGED <<run, st>> /\ pending' \in BOOLEAN
    BY <1>1, <1>4, <2>1, <2>2, <2>4 DEF Rest, FwdTypeOK
  <2> QED BY <1>5, <2>3, <2>4
<1>9. /\ views' = <<>> /\ batch' = <<>> /\ sent' = 0 /\ fpc' \in {"down", "idle"}
      /\ st' \in {st, Fresh} /\ disk' = disk /\ Settled \subseteq Settled'
  BY <1>5, <1>6 DEF Halt, Rest, Settled
<1> QED BY <1>6, <1>8, <1>9, AtRest

-----------------------------------------------------------------------------
(* Reconciling: a placed checkpoint covers what it passes.                  *)

LEMMA HeadOfType ==
  ASSUME LogTypeOK, NEW f \in Inodes, NEW n \in Nat, n =< Len(data[f])
  PROVE  HeadOf(f, n) \in Seq(Unit)
BY DEF LogTypeOK, HeadOf

LEMMA PlacedCovered ==
  ASSUME Inductive, NEW i \in DOMAIN views
  PROVE  LET v == views[i]
             new == IF st.files[v.key] = NoCp
                    THEN {data[v.key][j].ev : j \in 1..FirstOffset(v)} ELSE {}
         IN  /\ Placed(v) \in Checkpoint
             /\ Covered(data[v.key], Placed(v).off, Settled \cup new)
             /\ new \subseteq Events
<1> DEFINE v == views[i]
           f == v.key
           old == st.files[f]
           new == IF old = NoCp THEN {data[f][j].ev : j \in 1..FirstOffset(v)} ELSE {}
           off == IF old = NoCp THEN FirstOffset(v) ELSE old.off
           head == IF old = NoCp THEN <<>> ELSE old.head
           replaced == v.size < off \/ (v.size >= Len(head) /\ HeadOf(f, Len(head)) # head)
           off1 == IF replaced THEN 0 ELSE off
           head1 == IF replaced THEN <<>> ELSE head
           n == IF off1 < HeadMax THEN off1 ELSE HeadMax
           head2 == IF n > Len(head1) THEN HeadOf(f, n) ELSE head1
<1>1. Placed(v) = [off |-> off1, size |-> v.size, path |-> v.path, missing |-> 0, head |-> head2]
  BY DEF Placed, Replaced
<1>2. /\ LogTypeOK /\ FwdTypeOK
      /\ f \in Inodes /\ v.size \in Nat /\ v.path \in Slots /\ v.size =< Len(data[f])
  BY Elements DEF Inductive, TypeOK, ViewsInv
<1>3. data[f] \in Seq(Unit)
  BY <1>2 DEF LogTypeOK
<1>4. old # NoCp => /\ old.off \in Nat /\ old.head \in Seq(Unit)
                    /\ Covered(data[f], old.off, Settled)
  <2>1. old \in Checkpoint \cup {NoCp}
    BY <1>2 DEF FwdTypeOK, State
  <2> QED BY <1>2, <2>1 DEF Checkpoint, Inductive, CheckpointsCovered
<1>5. /\ FirstOffset(v) \in 0..v.size
      /\ FirstOffset(v) = 0 \/ data[f][FirstOffset(v)].nl
  BY <1>2, LastLineEndType DEF FirstOffset
<1> HIDE DEF v, f, old
<1>6. off \in Nat /\ head \in Seq(Unit)
  BY <1>4, <1>5
<1>7. Covered(data[f], off, Settled \cup new)
  <2>1. CASE old = NoCp
    <3>1. off = FirstOffset(v) /\ off =< v.size /\ off =< Len(data[f])
      BY <1>2, <1>3, <1>5, <2>1
    <3> QED BY <1>5, <2>1, <3>1 DEF Covered
  <2>2. CASE old # NoCp
    BY <1>4, <2>2
  <2> QED BY <2>1, <2>2
<1>8. Covered(data[f], 0, Settled \cup new)
  BY <1>3 DEF Covered
<1>9. off1 \in Nat /\ head1 \in Seq(Unit) /\ (off1 = 0 \/ off1 = off)
  BY <1>6
<1>10. Covered(data[f], off1, Settled \cup new)
  BY <1>7, <1>8, <1>9
<1>11. head2 \in Seq(Unit)
  <2>1. off1 =< Len(data[f])
    BY <1>10 DEF Covered
  <2>2. n \in Nat /\ n =< off1
    BY <1>9, LimitsAssumption
  <2> HIDE DEF off1, head1, n
  <2>3. n =< Len(data[f])
    BY <1>3, <1>9, <2>1, <2>2
  <2>4. HeadOf(f, n) \in Seq(Unit)
    BY <1>2, <2>2, <2>3, HeadOfType
  <2> QED BY <1>9, <2>4
<1>12. new \subseteq Events
  <2>1. \A j \in 1..FirstOffset(v) : j \in 1..Len(data[f])
    BY <1>2, <1>3, <1>5
  <2>2. \A j \in 1..Len(data[f]) : data[f][j] \in Unit
    BY <1>3
  <2>3. \A u \in Unit : u.ev \in Events
    BY DEF Unit
  <2> QED BY <2>1, <2>2, <2>3
<1> HIDE DEF off1, head2, new
<1>13. Placed(v) \in Checkpoint /\ Placed(v).off = off1
  BY <1>1, <1>2, <1>9, <1>11 DEF Checkpoint
<1> QED BY <1>10, <1>12, <1>13 DEF v, f, old, new

LEMMA ReconcileStep ==
  ASSUME Inductive, Reconcile
  PROVE  Inductive'
<1>1. LogTypeOK /\ FwdTypeOK /\ ViewsInv
  BY DEF Inductive, TypeOK
<1>2. /\ UNCHANGED <<logVars, run, placing, opening, views, batch, cuts, sent, pending, disk,
                     starts, accepted, unsaved>>
      /\ st' = Reconciled /\ passed' = passed \cup SkippedByFirstRun
      /\ fpc = "reconcile" /\ fpc' \in {"persist", "read"}
  BY DEF Reconcile
<1>3. Settled \subseteq Settled' /\ data' = data
  BY <1>2 DEF Settled, logVars
<1>4. ASSUME NEW f \in Inodes, f \in ViewKeys
      PROVE  /\ Reconciled.files[f] \in Checkpoint
             /\ Covered(data[f], Reconciled.files[f].off, Settled')
  <2> DEFINE V == {views[i] : i \in DOMAIN views}
             v == CHOOSE x \in V : x.key = f
  <2>1. v \in V /\ v.key = f
    BY <1>4 DEF ViewKeys
  <2>2. PICK i \in DOMAIN views : views[i] = v
    BY <2>1
  <2>3. Reconciled.files[f] = Placed(v)
    BY <1>4 DEF Reconciled
  <2> HIDE DEF v
  <2> DEFINE new == IF st.files[v.key] = NoCp
                    THEN {data[v.key][j].ev : j \in 1..FirstOffset(v)} ELSE {}
  <2>4. Placed(v) \in Checkpoint /\ Covered(data[f], Placed(v).off, Settled \cup new)
    BY <2>1, <2>2, PlacedCovered
  <2>5. new \subseteq SkippedByFirstRun
    BY <2>2 DEF SkippedByFirstRun
  <2>6. Settled \cup new \subseteq Settled'
    BY <1>2, <1>3, <2>5 DEF Settled
  <2> HIDE DEF new
  <2> QED BY <2>3, <2>4, <2>6, CoveredMono
<1>5. ASSUME NEW f \in Inodes, f \notin ViewKeys, Reconciled.files[f] # NoCp
      PROVE  /\ Reconciled.files[f] \in Checkpoint
             /\ Covered(data[f], Reconciled.files[f].off, Settled')
  <2> DEFINE cp == st.files[f]
  <2>1. cp # NoCp /\ cp \in Checkpoint /\ Reconciled.files[f] = [cp EXCEPT !.missing = @ + 1]
    BY <1>1, <1>5 DEF Reconciled, NotFound, FwdTypeOK, State
  <2>2. Covered(data[f], cp.off, Settled)
    BY <2>1 DEF Inductive, CheckpointsCovered
  <2> HIDE DEF cp
  <2>3. Reconciled.files[f] \in Checkpoint /\ Reconciled.files[f].off = cp.off
    BY <2>1 DEF Checkpoint
  <2> QED BY <1>3, <2>2, <2>3, CoveredMono
<1>6. Reconciled \in State
  <2>1. \A f \in Inodes : Reconciled.files[f] \in Checkpoint \cup {NoCp}
    BY <1>4, <1>5
  <2> QED BY <2>1 DEF Reconciled, State
<1>7. SkippedByFirstRun \subseteq Events
  <2>1. \A k \in DOMAIN views : st.files[views[k].key] = NoCp =>
          {data[views[k].key][j].ev : j \in 1..FirstOffset(views[k])} \subseteq Events
    BY PlacedCovered
  <2> QED BY <2>1 DEF SkippedByFirstRun
<1>8. FwdTypeOK'
  BY <1>1, <1>2, <1>6, <1>7 DEF FwdTypeOK
<1>9. CheckpointsCovered(st)'
  BY <1>2, <1>3, <1>4, <1>5 DEF CheckpointsCovered
<1>10. CheckpointsCovered(disk)'
  BY <1>2, <1>3, CoveredMono DEF CheckpointsCovered, Inductive
<1>11. ViewsInv'
  <2>1. \A i \in DOMAIN views : views[i].key \in ViewKeys /\ views[i].key \in Inodes
    BY <1>1, Elements DEF ViewKeys
  <2> QED BY <1>1, <1>2, <1>3, <1>4, <2>1, NoCpAssumption DEF ViewsInv
<1>12. BatchInv'
  BY <1>1, <1>2, <1>3, BatchKept DEF FwdTypeOK, Inductive
<1>13. SentInv'
  BY <1>2 DEF SentInv, Inductive
<1>14. LogTypeOK' /\ FilesInv'
  BY <1>1, <1>2, LogKept DEF logVars, LogTypeOK, Inductive
<1> QED BY <1>8, <1>9, <1>10, <1>11, <1>12, <1>13, <1>14 DEF Inductive, TypeOK

-----------------------------------------------------------------------------
(* Reading: an entry rides with every line it passes.                       *)

LEMMA ReadLineStep ==
  ASSUME Inductive, ReadLine
  PROVE  Inductive'
<1> DEFINE v == Head(views)
           f == v.key
           from == ReadFrom(v)
           len == Len(batch)
           U == UNION {batch[m].evs : m \in 1..len}
<1>1. LogTypeOK /\ FwdTypeOK /\ ViewsInv
  BY DEF Inductive, TypeOK
<1>2. /\ UNCHANGED <<logVars, fpc, run, placing, opening, views, st, cuts, sent, pending, disk,
                     starts, accepted, passed, unsaved>>
      /\ fpc = "read" /\ views # <<>>
  BY DEF ReadLine
<1>3. PICK end \in (from + 1)..v.size :
        /\ data[f][end].nl
        /\ LET evs == {data[f][j].ev : j \in (from + 1)..end}
           IN  batch' = Append(batch, [key |-> f, end |-> end, evs |-> evs,
                                       kind |-> LineKind(evs)])
  BY DEF ReadLine
<1> DEFINE evs == {data[f][j].ev : j \in (from + 1)..end}
           e == [key |-> f, end |-> end, evs |-> evs, kind |-> LineKind(evs)]
<1>4. /\ f \in Inodes /\ v.size \in Nat /\ v.size =< Len(data[f]) /\ st.files[f] # NoCp
      /\ data[f] \in Seq(Unit)
  <2>1. views \in Seq(View) /\ v = views[1] /\ 1 \in DOMAIN views
    BY <1>1, <1>2 DEF FwdTypeOK
  <2> HIDE DEF v
  <2>2. f \in Inodes /\ v.size \in Nat
    BY <1>1, <2>1, Elements
  <2> QED BY <1>1, <1>2, <2>1, <2>2 DEF ViewsInv, LogTypeOK
<1>5. batch \in Seq(Entry) /\ len \in Nat /\ DOMAIN batch = 1..len
  BY <1>1 DEF FwdTypeOK
<1>6. from \in Nat /\ Covered(data[f], from, Settled \cup U)
  <2>1. CASE batch # <<>> /\ batch[len].key = f
    <3>1. from = batch[len].end /\ len \in DOMAIN batch
      BY <1>5, <2>1 DEF ReadFrom
    <3>2. Covered(data[f], from, Settled \cup U)
      BY <2>1, <3>1 DEF Inductive, BatchInv, EvsUpTo
    <3> QED BY <1>1, <3>1, <3>2, Elements
  <2>2. CASE ~(batch # <<>> /\ batch[len].key = f)
    <3>1. from = st.files[f].off
      BY <2>2 DEF ReadFrom
    <3>2. st.files[f] \in Checkpoint
      BY <1>1, <1>4 DEF FwdTypeOK, State
    <3>3. from \in Nat /\ Covered(data[f], from, Settled)
      BY <1>4, <3>1, <3>2 DEF Checkpoint, Inductive, CheckpointsCovered
    <3>4. Settled \subseteq Settled \cup U
      OBVIOUS
    <3> HIDE DEF from, U
    <3> QED BY <3>3, <3>4, CoveredMono
  <2> QED BY <2>1, <2>2
<1> HIDE DEF v, from
<1>7. end \in Nat /\ end =< Len(data[f]) /\ end >= 1 /\ end =< v.size /\ from < end
  BY <1>3, <1>4, <1>6
<1>8. evs \subseteq Events
  <2>1. \A j \in (from + 1)..end : data[f][j] \in Unit
    BY <1>4, <1>6, <1>7
  <2>2. \A u \in Unit : u.ev \in Events
    BY DEF Unit
  <2> QED BY <2>1, <2>2
<1>9. Covered(data[f], end, Settled \cup U \cup evs)
  <2>1. \A j \in 1..end : j \in 1..from \/ j \in (from + 1)..end
    BY <1>6, <1>7
  <2> QED BY <1>3, <1>6, <1>7, <2>1 DEF Covered
<1> HIDE DEF evs, U
<1>10. e \in Entry /\ e.key = f /\ e.end = end /\ e.evs = evs
  BY <1>4, <1>7, <1>8 DEF Entry, LineKind, Kinds
<1> HIDE DEF e
<1>11. /\ batch' \in Seq(Entry) /\ DOMAIN batch' = 1..(len + 1)
       /\ batch'[len + 1] = e /\ \A i \in 1..len : batch'[i] = batch[i]
  BY <1>3, <1>5, <1>10 DEF e, evs
<1>12. BatchInv'
  <2>1. UNION {batch'[m].evs : m \in 1..(len + 1)} = U \cup evs
    <3>1. \A m : m \in 1..(len + 1) <=> m \in 1..len \/ m = len + 1
      BY <1>5
    <3> QED BY <1>10, <1>11, <3>1 DEF U
  <2>2. \A i \in 1..len : UNION {batch'[m].evs : m \in 1..i} = UNION {batch[m].evs : m \in 1..i}
    <3>1. \A i \in 1..len : \A m \in 1..i : batch'[m] = batch[m]
      BY <1>5, <1>11
    <3> QED BY <3>1
  <2>3. data' = data /\ Settled' = Settled
    BY <1>2 DEF logVars, Settled
  <2>4. Covered(data[batch'[len + 1].key], batch'[len + 1].end,
                Settled \cup UNION {batch'[m].evs : m \in 1..(len + 1)})
    <3>1. Settled \cup (U \cup evs) = Settled \cup U \cup evs
      OBVIOUS
    <3> QED BY <1>9, <1>10, <1>11, <2>1, <3>1
  <2>5. \A i \in 1..len :
          Covered(data[batch'[i].key], batch'[i].end,
                  Settled \cup UNION {batch'[m].evs : m \in 1..i})
    BY <1>5, <1>11, <2>2 DEF Inductive, BatchInv, EvsUpTo
  <2>6. \A i \in 1..(len + 1) : i \in 1..len \/ i = len + 1
    BY <1>5
  <2> QED BY <1>11, <2>3, <2>4, <2>5, <2>6 DEF BatchInv, EvsUpTo
<1>13. FwdTypeOK'
  BY <1>1, <1>2, <1>11 DEF FwdTypeOK
<1>14. ViewsInv' /\ SentInv'
  BY <1>1, <1>2 DEF ViewsInv, SentInv, logVars, Inductive
<1>15. LogTypeOK' /\ FilesInv'
  BY <1>1, <1>2, LogKept DEF logVars, LogTypeOK, Inductive
<1>16. CheckpointsCovered(st)' /\ CheckpointsCovered(disk)'
  BY <1>2, HandedOn DEF logVars, Settled
<1> QED BY <1>12, <1>13, <1>14, <1>15, <1>16 DEF Inductive, TypeOK

-----------------------------------------------------------------------------
(* Delivering: the part is settled before a checkpoint passes it.           *)

LEMMA HandOverStep ==
  ASSUME Inductive, NothingToSend \/ Deliver
  PROVE  Inductive'
<1>1. LogTypeOK /\ FwdTypeOK
  BY DEF Inductive, TypeOK
<1>2. /\ UNCHANGED <<logVars, run, placing, st, disk, batch, sent, starts, accepted, passed,
                     unsaved>>
      /\ cuts' = <<Len(batch)>> /\ opening' = 0 /\ views' = <<>>
      /\ fpc = "read" /\ fpc' \in {"commit", "post"} /\ pending' \in BOOLEAN
  BY <1>1 DEF NothingToSend, Deliver, EndScan, FwdTypeOK
<1>3. sent = 0 /\ batch \in Seq(Entry) /\ Len(batch) \in Nat
  BY <1>1, <1>2 DEF Inductive, SentInv, FwdTypeOK
<1>4. FwdTypeOK'
  BY <1>1, <1>2, <1>3, ArchivesAssumption DEF FwdTypeOK, Slots
<1>5. ViewsInv'
  BY <1>2 DEF ViewsInv
<1>6. fpc' = "commit" => \A m \in Part' : batch[m].kind # "data"
  <2> SUFFICES ASSUME NothingToSend, NEW m \in 1..Len(batch)
               PROVE  batch[m].kind # "data"
    BY <1>2, <1>3 DEF Part, Deliver
  <2> QED BY DEF NothingToSend, DataLines
<1>7. SentInv'
  BY <1>2, <1>3, <1>6 DEF SentInv
<1>8. BatchInv'
  BY <1>2, BatchKept DEF logVars, Settled, FwdTypeOK, Inductive, TypeOK
<1>9. LogTypeOK' /\ FilesInv'
  BY <1>1, <1>2, LogKept DEF logVars, LogTypeOK, Inductive
<1>10. CheckpointsCovered(st)' /\ CheckpointsCovered(disk)'
  BY <1>2, HandedOn DEF logVars, Settled
<1> QED BY <1>4, <1>5, <1>7, <1>8, <1>9, <1>10 DEF Inductive, TypeOK

LEMMA PostStep ==
  ASSUME Inductive, PostOK \/ PostSplit \/ PostSkip
  PROVE  Inductive'
<1>1. LogTypeOK /\ FwdTypeOK /\ SentInv /\ ViewsInv /\ BatchInv
  BY DEF Inductive, TypeOK
<1>2. /\ UNCHANGED <<logVars, run, placing, opening, views, st, sent, pending, disk, starts, passed,
                     unsaved>>
      /\ fpc = "post" /\ fpc' \in {"post", "commit"}
  BY DEF PostOK, PostSplit, PostSkip
<1>3. /\ cuts # <<>> /\ Head(cuts) \in Nat /\ Head(cuts) =< Len(batch)
      /\ sent \in Nat /\ Len(batch) \in Nat
      /\ PartData \subseteq Part /\ Part \subseteq DOMAIN batch
      /\ cuts \in Seq(Nat) /\ batch \in Seq(Entry)
  BY <1>1, <1>2, PartInBatch DEF FwdTypeOK
<1>4. Settled \subseteq Settled'
  BY DEF PostOK, PostSplit, PostSkip, Settled
<1>5. ViewsInv'
  BY <1>1, <1>2 DEF ViewsInv, logVars
<1>6. LogTypeOK' /\ FilesInv'
  BY <1>1, <1>2, LogKept DEF logVars, LogTypeOK, Inductive
<1>7. CheckpointsCovered(st)' /\ CheckpointsCovered(disk)'
  BY <1>2, <1>4, HandedOn DEF logVars
<1>8. \A m \in Part : m \in PartData \/ batch[m].kind # "data"
  BY DEF Part, PartData, DataLines
<1>9. \A m \in DOMAIN batch : m =< sent => batch[m].evs \subseteq Settled'
  BY <1>1, <1>2, <1>4 DEF SentInv
<1>10. CASE PostOK
  <2>1. /\ UNCHANGED <<batch, cuts>> /\ accepted' = accepted \cup PartLines /\ fpc' = "commit"
    BY <1>10 DEF PostOK
  <2>2. PartLines \subseteq Events
    BY <1>1, <1>3, Elements DEF PartLines
  <2>3. FwdTypeOK'
    BY <1>1, <1>2, <2>1, <2>2 DEF FwdTypeOK
  <2>4. \A m \in Part : batch[m].evs \subseteq Settled' \/ batch[m].kind # "data"
    BY <1>8, <2>1 DEF PartLines, Settled
  <2>5. SentInv'
    BY <1>1, <1>2, <1>9, <2>1, <2>4 DEF SentInv, Part
  <2>6. BatchInv'
    BY <1>1, <1>2, <1>4, <2>1, BatchKept DEF logVars, FwdTypeOK
  <2> QED BY <1>5, <1>6, <1>7, <2>3, <2>5, <2>6 DEF Inductive, TypeOK
<1>11. CASE PostSplit
  <2>1. PICK m \in PartData : cuts' = <<m - 1>> \o cuts
    BY <1>11 DEF PostSplit
  <2>2. UNCHANGED <<fpc, batch, accepted>>
    BY <1>11 DEF PostSplit
  <2>3. m - 1 \in Nat /\ m - 1 =< Len(batch)
    BY <1>3 DEF Part
  <2>4. /\ cuts' \in Seq(Nat) /\ cuts' # <<>>
        /\ \A k \in DOMAIN cuts' : cuts'[k] =< Len(batch)
    <3>1. \A k \in DOMAIN cuts : cuts[k] =< Len(batch)
      BY <1>1, <1>2 DEF SentInv
    <3>2. /\ cuts' \in Seq(Nat) /\ DOMAIN cuts' = 1..(Len(cuts) + 1)
          /\ \A k \in 1..(Len(cuts) + 1) : cuts'[k] = IF k = 1 THEN m - 1 ELSE cuts[k - 1]
      BY <1>3, <2>1, <2>3
    <3>3. \A k \in 1..(Len(cuts) + 1) : k # 1 => k - 1 \in DOMAIN cuts
      BY <1>3
    <3> QED BY <2>1, <2>3, <3>1, <3>2, <3>3, <1>3
  <2>5. FwdTypeOK'
    BY <1>1, <1>2, <2>2, <2>4 DEF FwdTypeOK
  <2>6. SentInv'
    BY <1>1, <1>2, <1>9, <2>2, <2>4 DEF SentInv
  <2>7. BatchInv'
    BY <1>1, <1>2, <1>4, <2>2, BatchKept DEF logVars, FwdTypeOK
  <2> QED BY <1>5, <1>6, <1>7, <2>5, <2>6, <2>7 DEF Inductive, TypeOK
<1>12. CASE PostSkip
  <2>1. /\ UNCHANGED <<cuts, accepted>> /\ fpc' = "commit"
        /\ batch' = [i \in DOMAIN batch |->
             IF i \in PartData THEN [batch[i] EXCEPT !.kind = "skipped"] ELSE batch[i]]
    BY <1>12 DEF PostSkip
  <2>2. \A i \in DOMAIN batch :
          /\ batch'[i] \in Entry
          /\ batch'[i].key = batch[i].key /\ batch'[i].end = batch[i].end
          /\ batch'[i].evs = batch[i].evs
          /\ i \in PartData => batch'[i].kind = "skipped"
          /\ i \notin PartData => batch'[i].kind = batch[i].kind
    BY <1>1, <2>1, Elements DEF Entry, Kinds
  <2>3. batch' \in Seq(Entry) /\ DOMAIN batch' = DOMAIN batch /\ Len(batch') = Len(batch)
    BY <1>3, <2>1, <2>2
  <2>4. FwdTypeOK'
    BY <1>1, <1>2, <2>1, <2>3 DEF FwdTypeOK
  <2>5. \A m \in Part : batch'[m].kind # "data"
    BY <1>3, <1>8, <2>2
  <2>6. SentInv'
    BY <1>1, <1>2, <1>9, <2>1, <2>2, <2>3, <2>5 DEF SentInv, Part
  <2>7. BatchInv'
    BY <1>1, <1>2, <1>3, <1>4, <2>2, <2>3, BatchKept DEF logVars
  <2> QED BY <1>5, <1>6, <1>7, <2>4, <2>6, <2>7 DEF Inductive, TypeOK
<1> QED BY <1>10, <1>11, <1>12

LEMMA CommitStep ==
  ASSUME Inductive, Commit
  PROVE  Inductive'
<1>1. LogTypeOK /\ FwdTypeOK /\ SentInv /\ ViewsInv /\ BatchInv
  BY DEF Inductive, TypeOK
<1>2. /\ UNCHANGED <<logVars, run, placing, opening, views, batch, cuts, sent, pending, disk,
                     starts, accepted, unsaved>>
      /\ fpc = "commit" /\ fpc' = "save"
      /\ passed' = passed \cup UNION {batch[i].evs : i \in Part \ PartData}
  BY DEF Commit
<1>3. /\ Head(cuts) \in Nat /\ Head(cuts) =< Len(batch) /\ sent \in Nat /\ Len(batch) \in Nat
      /\ PartData \subseteq Part /\ Part \subseteq DOMAIN batch
      /\ batch \in Seq(Entry)
  BY <1>1, <1>2, PartInBatch DEF FwdTypeOK
<1>4. Settled \subseteq Settled' /\ data' = data
  BY <1>2 DEF Settled, logVars
<1>5. passed' \subseteq Events
  BY <1>1, <1>2, <1>3, Elements DEF FwdTypeOK
<1>6. \A m \in Part : batch[m].evs \subseteq Settled'
  <2> SUFFICES ASSUME NEW m \in Part PROVE batch[m].evs \subseteq Settled'
    OBVIOUS
  <2>1. CASE batch[m].evs \subseteq Settled
    BY <1>4, <2>1
  <2>2. CASE batch[m].kind # "data"
    <3>1. m \in Part \ PartData
      BY <2>2 DEF PartData, DataLines
    <3> QED BY <1>2, <3>1 DEF Settled
  <2> QED BY <1>1, <1>2, <2>1, <2>2 DEF SentInv
<1>7. \A k \in Part : EvsUpTo(k) \subseteq Settled'
  <2> SUFFICES ASSUME NEW k \in Part, NEW m \in 1..k
               PROVE  batch[m].evs \subseteq Settled'
    BY DEF EvsUpTo
  <2>1. m \in DOMAIN batch /\ (m =< sent \/ m \in Part)
    BY <1>3 DEF Part
  <2> QED BY <1>1, <1>2, <1>4, <1>6, <2>1 DEF SentInv
<1>8. \A k \in Part : Covered(data[batch[k].key], batch[k].end, Settled')
  <2> SUFFICES ASSUME NEW k \in Part
               PROVE  Covered(data[batch[k].key], batch[k].end, Settled')
    OBVIOUS
  <2>1. Covered(data[batch[k].key], batch[k].end, Settled \cup EvsUpTo(k))
    BY <1>1, <1>3 DEF BatchInv
  <2>2. Settled \cup EvsUpTo(k) \subseteq Settled'
    BY <1>4, <1>7
  <2> QED BY <2>1, <2>2, CoveredMono
<1>9. ASSUME NEW f \in Inodes, st.files[f] # NoCp
      PROVE  /\ st'.files[f] \in Checkpoint
             /\ Covered(data[f], st'.files[f].off, Settled')
  <2> DEFINE cp == st.files[f]
             S  == {cp.off} \cup Ends(f)
  <2>1. cp \in Checkpoint
    BY <1>1, <1>9 DEF FwdTypeOK, State
  <2>2. Covered(data[f], cp.off, Settled')
    BY <1>4, <1>9, CoveredMono DEF Inductive, CheckpointsCovered
  <2>3. st'.files[f] = [cp EXCEPT !.off = Max(S)]
    BY <1>1, <1>9 DEF Commit, FwdTypeOK, State
  <2>4. \A x \in S : x \in Nat /\ Covered(data[f], x, Settled')
    <3>1. \A k \in Part : batch[k].end \in Nat
      BY <1>1, <1>3, Elements
    <3>2. cp.off \in Nat
      BY <2>1 DEF Checkpoint
    <3> HIDE DEF cp
    <3> QED BY <1>8, <2>2, <3>1, <3>2 DEF Ends
  <2>5. Len(data[f]) \in Nat
    BY <1>1 DEF LogTypeOK
  <2>6. S \in SUBSET (0..Len(data[f])) /\ S # {}
    BY <2>4, <2>5 DEF Covered
  <2> HIDE DEF S
  <2>7. Max(S) \in S
    BY <2>5, <2>6, MaxBounded
  <2>8. Max(S) \in Nat /\ Covered(data[f], Max(S), Settled')
    BY <2>4, <2>7
  <2> HIDE DEF cp
  <2>9. st'.files[f] \in Checkpoint /\ st'.files[f].off = Max(S)
    BY <2>1, <2>3, <2>8 DEF Checkpoint
  <2> QED BY <2>8, <2>9
<1>10. \A f \in Inodes : st.files[f] = NoCp => st'.files[f] = NoCp
  BY <1>1 DEF Commit, FwdTypeOK, State
<1>11. st' \in State
  <2> DEFINE files == [f \in Inodes |->
                        IF st.files[f] = NoCp THEN NoCp
                        ELSE [st.files[f] EXCEPT !.off = Max({@} \cup Ends(f))]]
  <2>1. st' = [st EXCEPT !.files = files]
    BY DEF Commit
  <2>2. st \in State
    BY <1>1 DEF FwdTypeOK
  <2>3. st' = [init |-> st.init, files |-> files]
    BY <2>1, <2>2 DEF State
  <2> HIDE DEF files
  <2>4. \A f \in Inodes : files[f] \in Checkpoint \cup {NoCp}
    BY <1>9, <1>10, <2>3
  <2>5. files \in [Inodes -> Checkpoint \cup {NoCp}]
    BY <2>4 DEF files
  <2> QED BY <2>2, <2>3, <2>5 DEF State
<1>12. FwdTypeOK'
  BY <1>1, <1>2, <1>5, <1>11 DEF FwdTypeOK
<1>13. CheckpointsCovered(st)'
  BY <1>4, <1>9, <1>10 DEF CheckpointsCovered
<1>14. CheckpointsCovered(disk)'
  BY <1>2, <1>4, CoveredMono DEF CheckpointsCovered, Inductive
<1>15. SentInv'
  BY <1>1, <1>2, <1>4, <1>6 DEF SentInv, Part
<1>16. ViewsInv'
  BY <1>1, <1>2, <1>4 DEF ViewsInv
<1>17. BatchInv'
  BY <1>1, <1>2, <1>3, <1>4, BatchKept
<1>18. LogTypeOK' /\ FilesInv'
  BY <1>1, <1>2, LogKept DEF logVars, LogTypeOK, Inductive
<1> QED BY <1>12, <1>13, <1>14, <1>15, <1>16, <1>17, <1>18 DEF Inductive, TypeOK

LEMMA LongerThanOne ==
  ASSUME NEW S, NEW s \in Seq(S), s # <<>>, Len(s) # 1
  PROVE  /\ Tail(s) \in Seq(S) /\ Tail(s) # <<>>
         /\ \A k \in DOMAIN Tail(s) : k + 1 \in DOMAIN s /\ Tail(s)[k] = s[k + 1]
<1>1. Len(s) \in Nat /\ Len(s) # 0
  OBVIOUS
<1>2. Len(s) > 1
  <2>1. \A n \in Nat : n # 0 /\ n # 1 => n > 1
    OBVIOUS
  <2> QED BY <1>1, <2>1, Zenon
<1>3. Tail(s) \in Seq(S) /\ Len(Tail(s)) = Len(s) - 1
  OBVIOUS
<1>4. Tail(s) # <<>>
  BY <1>2, <1>3
<1>5. \A k \in DOMAIN Tail(s) : k + 1 \in DOMAIN s /\ Tail(s)[k] = s[k + 1]
  OBVIOUS
<1> QED BY <1>3, <1>4, <1>5

LEMMA SaveStep ==
  ASSUME Inductive, Save
  PROVE  Inductive'
<1>1. LogTypeOK /\ FwdTypeOK /\ SentInv /\ ViewsInv /\ BatchInv
  BY DEF Inductive, TypeOK
<1>2. /\ UNCHANGED <<logVars, pending, starts, accepted, passed>>
      /\ UNCHANGED <<run, st>> /\ disk' = st /\ unsaved' = 0 /\ fpc = "save" /\ Settled' = Settled
  BY DEF Save, Settled
<1>3. CASE Len(cuts) = 1
  <2>1. Rest
    BY <1>3 DEF Save
  <2>2. FwdTypeOK'
    <3>1. << >> \in Seq(View) /\ << >> \in Seq(Entry) /\ << >> \in Seq(Nat)
      OBVIOUS
    <3>2. 0 \in Slots
      BY ArchivesAssumption DEF Slots
    <3>3. disk' \in State
      BY <1>1, <1>2 DEF FwdTypeOK
    <3> QED BY <1>1, <1>2, <2>1, <3>1, <3>2, <3>3 DEF Rest, FwdTypeOK
  <2> QED BY <1>1, <1>2, <2>1, <2>2, AtRest DEF Rest, logVars, LogTypeOK
<1>4. CASE Len(cuts) # 1
  <2>1. /\ fpc' = "post" /\ sent' = Head(cuts) /\ cuts' = Tail(cuts)
        /\ UNCHANGED <<placing, opening, views, batch>>
    BY <1>4 DEF Save
  <2>2. /\ cuts \in Seq(Nat) /\ cuts # <<>> /\ Head(cuts) \in Nat
        /\ \A k \in DOMAIN cuts : cuts[k] =< Len(batch)
        /\ sent \in Nat
    BY <1>1, <1>2, PartInBatch DEF FwdTypeOK, SentInv
  <2>3. /\ cuts' \in Seq(Nat) /\ cuts' # <<>>
        /\ \A k \in DOMAIN cuts' : k + 1 \in DOMAIN cuts /\ cuts'[k] = cuts[k + 1]
    BY <1>4, <2>1, <2>2, LongerThanOne
  <2>4. FwdTypeOK'
    BY <1>1, <1>2, <2>1, <2>2, <2>3 DEF FwdTypeOK
  <2>5. \A m \in DOMAIN batch : m =< Head(cuts) => batch[m].evs \subseteq Settled
    <3> SUFFICES ASSUME NEW m \in DOMAIN batch, m =< Head(cuts)
                 PROVE  batch[m].evs \subseteq Settled
      OBVIOUS
    <3>1. m \in Nat
      BY <1>1 DEF FwdTypeOK
    <3>2. m =< sent \/ m \in Part
      BY <2>2, <3>1 DEF Part
    <3> QED BY <1>1, <1>2, <3>2 DEF SentInv
  <2>6. SentInv'
    BY <1>2, <2>1, <2>2, <2>3, <2>5 DEF SentInv
  <2>7. ViewsInv'
    BY <1>1, <1>2, <2>1 DEF ViewsInv, logVars
  <2>8. BatchInv'
    BY <1>1, <1>2, <2>1, BatchKept DEF FwdTypeOK, logVars
  <2>9. LogTypeOK' /\ FilesInv'
    BY <1>1, <1>2, LogKept DEF logVars, LogTypeOK, Inductive
  <2>10. CheckpointsCovered(st)' /\ CheckpointsCovered(disk)'
    BY <1>2, HandedOn DEF logVars
  <2> QED BY <2>4, <2>6, <2>7, <2>8, <2>9, <2>10 DEF Inductive, TypeOK
<1> QED BY <1>3, <1>4

-----------------------------------------------------------------------------
(* The theorems.                                                            *)

LEMMA InductiveInit == Init => Inductive
<1> SUFFICES ASSUME Init PROVE Inductive
  OBVIOUS
<1>1. LogTypeOK /\ FilesInv
  BY LogTypeInit DEF Init
<1>2. Fresh \in State
  BY DEF Fresh, State
<1>3. << >> \in Seq(View) /\ << >> \in Seq(Entry) /\ << >> \in Seq(Nat)
  OBVIOUS
<1>4. FwdTypeOK
  <2>1. 0 \in Slots /\ 0 \in 0..MaxStarts
    BY ArchivesAssumption, StartsAssumption DEF Slots
  <2>2. Service \in [mode : {"service", "once", "prime"}, backfill : BOOLEAN]
    BY DEF Service
  <2> QED BY <1>2, <1>3, <2>1, <2>2 DEF Init, FwdInit, FwdTypeOK
<1>5. ViewsInv /\ BatchInv /\ SentInv
  BY DEF Init, FwdInit, ViewsInv, BatchInv, SentInv
<1>6. CheckpointsCovered(st) /\ CheckpointsCovered(disk)
  BY DEF Init, FwdInit, Fresh, CheckpointsCovered
<1> QED BY <1>1, <1>4, <1>5, <1>6 DEF Inductive, TypeOK

LEMMA InductiveStep ==
  ASSUME Inductive, ~InodeReuse, [Next]_vars
  PROVE  Inductive'
<1>1. CASE Writers
  BY <1>1, WritersStep
<1>2. CASE StartService \/ \E r \in Starts : Start(r)
  BY <1>2, StartStep DEF StartService
<1>3. CASE FwdStep
  BY <1>3, PassingStep, OpenViewStep, ReconcileStep, PersistStep, RestingStep, ReadLineStep,
     HandOverStep, PostStep, CommitStep, SaveStep DEF FwdStep
<1>4. CASE FwdFault
  BY <1>4, RestingStep DEF FwdFault
<1>5. CASE UNCHANGED vars
  <2>1. UNCHANGED <<logVars, fwdVars>>
    BY <1>5 DEF vars
  <2>2. LogTypeOK' /\ FilesInv'
    BY <2>1, LogKept DEF logVars, LogTypeOK, Inductive, TypeOK
  <2>3. FwdTypeOK'
    BY <2>1 DEF fwdVars, FwdTypeOK, Inductive, TypeOK
  <2>4. ViewsInv' /\ SentInv'
    BY <2>1 DEF fwdVars, logVars, ViewsInv, SentInv, Part, Settled, Inductive
  <2>5. BatchInv'
    BY <2>1, BatchKept DEF fwdVars, logVars, Settled, FwdTypeOK, Inductive, TypeOK
  <2>6. CheckpointsCovered(st)' /\ CheckpointsCovered(disk)'
    BY <2>1, HandedOn DEF fwdVars, logVars, Settled
  <2> QED BY <2>2, <2>3, <2>4, <2>5, <2>6 DEF Inductive, TypeOK
<1> QED BY <1>1, <1>2, <1>3, <1>4, <1>5 DEF Next

\* The invariant of the forwarder, its writers, crashes and restarts.
THEOREM InductiveCorrect == ~InodeReuse => (Spec => []Inductive)
<1> SUFFICES ASSUME ~InodeReuse PROVE Spec => []Inductive
  OBVIOUS
<1>1. Init => Inductive
  BY InductiveInit
<1>2. Inductive /\ [Next]_vars => Inductive'
  BY InductiveStep
<1> QED BY <1>1, <1>2, PTL DEF Spec

\* Every state of the log and the forwarder is well formed (forward.go's loop,
\* scan, deliver and commit).
THEOREM TypeCorrect == ~InodeReuse => (Spec => []TypeOK)
<1>1. Inductive => TypeOK
  BY DEF Inductive
<1> QED BY <1>1, InductiveCorrect, PTL

LEMMA CoveredSkipsNothing ==
  ASSUME NEW s, CheckpointsCovered(s)
  PROVE  SkipsNothing(s)
BY DEF CheckpointsCovered, SkipsNothing, Covered

\* Delivery is at least once: no checkpoint, in memory or on disk, passes a
\* line brainsrv has not taken, for every interleaving of writers, rotations,
\* crashes, lost answers and splits (forward.go deliver and commit).
THEOREM DeliveryCorrect == ~InodeReuse => (Spec => []CheckpointSafe)
<1>1. Inductive => CheckpointSafe
  BY CoveredSkipsNothing DEF Inductive, CheckpointSafe
<1> QED BY <1>1, InductiveCorrect, PTL

\* No scan starts inside a line (lastLineEnd, readLines and commit).
THEOREM BoundaryCorrect == ~InodeReuse => (Spec => []OnLineBoundary)
<1>1. Inductive => OnLineBoundary
  BY DEF Inductive, OnLineBoundary, CheckpointsCovered, Covered
<1> QED BY <1>1, InductiveCorrect, PTL

\* The abstract promise's invariant: what the checkpoints on disk pass was
\* given to brainsrv or is exempt.
THEOREM PromiseKept == ~InodeReuse => (Spec => []Promise!NothingLost)
<1>1. Inductive => Promise!NothingLost
  <2> SUFFICES ASSUME Inductive, NEW e \in Done PROVE e \in Settled
    BY DEF Promise!NothingLost, Settled
  <2>1. LogTypeOK /\ FwdTypeOK /\ CheckpointsCovered(disk)
    BY DEF Inductive, TypeOK
  <2>2. PICK f \in Linked : \E j \in DOMAIN data[f] :
          data[f][j].ev = e /\ disk.files[f] # NoCp /\ j =< disk.files[f].off
    BY DEF Done
  <2>3. PICK j \in DOMAIN data[f] :
          data[f][j].ev = e /\ disk.files[f] # NoCp /\ j =< disk.files[f].off
    BY <2>2
  <2>4. f \in Inodes /\ disk.files[f] \in Checkpoint /\ data[f] \in Seq(Unit)
    BY <2>1, <2>3 DEF Linked, LogTypeOK, FwdTypeOK, State
  <2>5. j \in 1..disk.files[f].off
    BY <2>3, <2>4 DEF Checkpoint
  <2> QED BY <2>1, <2>3, <2>4, <2>5 DEF CheckpointsCovered, Covered
<1> QED BY <1>1, InductiveCorrect, PTL

-----------------------------------------------------------------------------
(* What a scan sees while the log rotates under it.                        *)

\* The writers only add to files, create new ones, and move files to larger slots.
LogMoves ==
  /\ \A f \in Inodes : /\ Len(data[f]) =< Len(data'[f])
                       /\ \A j \in 1..Len(data[f]) : data'[f][j] = data[f][j]
  /\ used \subseteq used'
  /\ \A i \in Slots : slot'[i] # NoFile /\ slot'[i] \in used =>
       \E k \in Slots : k =< i /\ slot[k] = slot'[i]

LEMMA WritersMove ==
  ASSUME ~InodeReuse, LogTypeOK, FilesInv, NEW held, WriterNext(held)
  PROVE  LogMoves
<1>1. \A f \in Inodes : /\ Len(data[f]) =< Len(data'[f])
                        /\ \A j \in 1..Len(data[f]) : data'[f][j] = data[f][j]
  BY DataGrows
<1>2. CASE UNCHANGED <<slot, used>>
  BY <1>1, <1>2, ArchivesAssumption DEF LogMoves, Slots
<1>3. CASE RotateStep
  <2>1. used' = used /\ wslot \in Slots /\ slot \in [Slots -> Inodes \cup {NoFile}]
    BY <1>3 DEF RotateStep, LogTypeOK
  <2>2. \A i \in Slots : slot'[i] # NoFile => slot'[i] = slot[i] \/ (i = wslot + 1 /\ slot'[i] = slot[wslot])
    BY <1>3, <2>1 DEF RotateStep
  <2>3. \A i \in Slots : i \in Nat
    BY ArchivesAssumption DEF Slots
  <2>4. \A i \in Slots : slot'[i] # NoFile => \E k \in Slots : k =< i /\ slot[k] = slot'[i]
    BY <2>1, <2>2, <2>3
  <2> QED BY <1>1, <2>1, <2>4 DEF LogMoves
<1>4. CASE WriteBody(held)
  <2>1. slot \in [Slots -> Inodes \cup {NoFile}] /\ \A i \in Slots : i =< i
    BY ArchivesAssumption DEF LogTypeOK, Slots
  <2>2. CASE slot' = slot /\ used' = used
    BY <1>2, <2>2
  <2>3. CASE \E f \in Free(held) : slot' = [slot EXCEPT ![0] = f] /\ used' = used \cup {f}
    <3>1. PICK f \in Inodes \ used : slot' = [slot EXCEPT ![0] = f] /\ used' = used \cup {f}
      BY <2>3 DEF Free
    <3>2. \A i \in Slots : slot'[i] \in used => slot'[i] = slot[i]
      BY <2>1, <3>1
    <3> QED BY <1>1, <2>1, <3>1, <3>2 DEF LogMoves
  <2> QED BY <1>4, <2>2, <2>3 DEF WriteBody
<1> QED BY <1>2, <1>3, <1>4 DEF WriterNext, WriterStep, BeginAppend, WriteEnd, WriterFails

LEMMA LogStays ==
  ASSUME LogTypeOK, UNCHANGED <<slot, data, used>>
  PROVE  LogMoves
<1>1. \A i \in Slots : i =< i
  BY ArchivesAssumption DEF Slots
<1>2. \A f \in Inodes : Len(data[f]) =< Len(data[f])
  BY DEF LogTypeOK
<1> QED BY <1>1, <1>2 DEF LogMoves

LEMMA LinkedWere ==
  ASSUME LogMoves, NEW f \in used, f \in Linked'
  PROVE  f \in Linked
<1>1. PICK i \in Slots : slot'[i] = f /\ f # NoFile
  BY DEF Linked
<1>2. PICK k \in Slots : slot[k] = f
  BY <1>1 DEF LogMoves
<1> QED BY <1>1, <1>2 DEF Linked

\* A head is still that of a file that only grew.
LEMMA HeadKept ==
  ASSUME NEW s \in Seq(Unit), NEW t \in Seq(Unit), NEW n \in Nat, n =< Len(s), Len(s) =< Len(t),
         \A j \in 1..Len(s) : t[j] = s[j]
  PROVE  SubSeq(t, 1, n) = SubSeq(s, 1, n)
<1>1. n =< Len(t) /\ \A j \in 1..n : t[j] = s[j]
  OBVIOUS
<1>2. SubSeq(t, 1, n) = [j \in 1..n |-> t[j]] /\ SubSeq(s, 1, n) = [j \in 1..n |-> s[j]]
  BY <1>1
<1> QED BY <1>1, <1>2

\* What Kept says once the log has moved.
KeptNext(s) ==
  \A f \in Inodes : s.files[f] # NoCp =>
    LET cp == s.files[f] IN
    /\ f \in used' /\ (f \in Linked' => cp.missing = 0)
    /\ Len(cp.head) =< Len(data'[f]) /\ cp.head = SubSeq(data'[f], 1, Len(cp.head))

LEMMA KeptMoves ==
  ASSUME LogTypeOK, LogTypeOK', LogMoves, NEW s \in State, Kept(s)
  PROVE  KeptNext(s)
<1> SUFFICES ASSUME NEW f \in Inodes, s.files[f] # NoCp
             PROVE  LET cp == s.files[f] IN
                    /\ f \in used' /\ (f \in Linked' => cp.missing = 0)
                    /\ Len(cp.head) =< Len(data'[f]) /\ cp.head = SubSeq(data'[f], 1, Len(cp.head))
  BY DEF KeptNext
<1> DEFINE cp == s.files[f]
<1>1. cp \in Checkpoint /\ cp.head \in Seq(Unit)
  BY DEF State, Checkpoint
<1>2. /\ f \in used /\ (f \in Linked => cp.missing = 0)
      /\ Len(cp.head) =< Len(data[f]) /\ cp.head = SubSeq(data[f], 1, Len(cp.head))
  BY DEF Kept, HeadOf
<1> HIDE DEF cp
<1>3. /\ Len(data[f]) =< Len(data'[f]) /\ \A j \in 1..Len(data[f]) : data'[f][j] = data[f][j]
      /\ used \subseteq used'
  BY DEF LogMoves
<1>4. data[f] \in Seq(Unit) /\ data'[f] \in Seq(Unit) /\ Len(cp.head) \in Nat
  BY <1>1 DEF LogTypeOK
<1>5. SubSeq(data'[f], 1, Len(cp.head)) = SubSeq(data[f], 1, Len(cp.head))
  BY <1>2, <1>3, <1>4, HeadKept
<1>6. Len(cp.head) =< Len(data'[f])
  BY <1>2, <1>3, <1>4
<1>7. f \in Linked' => cp.missing = 0
  BY <1>2, LinkedWere
<1> QED BY <1>2, <1>3, <1>5, <1>6, <1>7 DEF cp

\* The log's own invariants after a step of the forwarder.
LEMMA LogStill ==
  ASSUME OrderInv, GuardInv, UNCHANGED <<slot, data, used, next, wpc, wslot, guarded, guard>>
  PROVE  OrderInv' /\ GuardInv'
BY DEF OrderInv, RotationInv, WrittenInv, OneName, OlderInHigherSlots, UnitEvents, GuardInv, SegmentsInv,
       OneFileInv, RefusalInv, Sound

LEMMA SightedWriters ==
  ASSUME Sighted, ~InodeReuse, Writers, Inductive'
  PROVE  Sighted'
<1>1. LogTypeOK /\ FwdTypeOK /\ FilesInv /\ LogTypeOK'
  BY DEF Sighted, Inductive, TypeOK
<1>2. WriterNext(ViewKeys) /\ UNCHANGED fwdVars
  BY DEF Writers
<1>3. LogMoves
  BY <1>1, <1>2, WritersMove
<1>4. OrderInv' /\ GuardInv'
  BY <1>1, <1>2, OrderStep, GuardStep DEF Sighted
<1>5. UNCHANGED <<fpc, run, opening, views, st, disk>>
  BY <1>2 DEF fwdVars
<1>6. st \in State /\ disk \in State
  BY <1>1 DEF FwdTypeOK
<1>7. Kept(st)' /\ Kept(disk)'
  <2>1. KeptNext(st) /\ KeptNext(disk)
    BY <1>1, <1>3, <1>6, KeptMoves DEF Sighted
  <2> QED BY <1>5, <2>1 DEF KeptNext, Kept, HeadOf
<1>8. \A s \in {st, disk} : \A f \in Inodes : s.files[f] # NoCp => f \in used
  BY DEF Sighted, Kept
<1>9. SightInv'
  <2>1. \A i \in DOMAIN views : views[i].key \in used'
    BY <1>3 DEF Sighted, SightInv, LogMoves
  <2>2. ASSUME fpc \in {"open", "reconcile"}, NEW i \in Slots, slot'[i] # NoFile, st.files[slot'[i]] # NoCp
        PROVE  slot'[i] \in ViewKeys \/ (fpc = "open" /\ opening =< i)
    <3>1. slot'[i] \in Inodes
      BY <1>1, <2>2 DEF LogTypeOK
    <3>2. PICK k \in Slots : k =< i /\ slot[k] = slot'[i]
      BY <1>3, <1>8, <2>2, <3>1 DEF LogMoves
    <3>3. slot[k] \in ViewKeys \/ (fpc = "open" /\ opening =< k)
      BY <2>2, <3>2 DEF Sighted, SightInv
    <3>4. opening \in Nat /\ k \in Nat /\ i \in Nat
      BY <1>1, ArchivesAssumption DEF FwdTypeOK, Slots
    <3> QED BY <3>2, <3>3, <3>4
  <2> QED BY <1>5, <2>1, <2>2 DEF Sighted, SightInv, ViewKeys
<1>10. AheadInv'
  <2>1. \A f \in Inodes : f \in Linked' /\ disk.files[f] # NoCp => f \in Linked
    BY <1>3, <1>8, LinkedWere
  <2>2. Linked' \subseteq Inodes
    BY <1>1 DEF LogTypeOK, Linked
  <2> QED BY <1>5, <2>1, <2>2 DEF Sighted, AheadInv, Ahead
<1> QED BY <1>4, <1>7, <1>9, <1>10 DEF Sighted

\* The forwarder leaves the log alone, but for the count of faults.
LEMMA FwdLeavesLog ==
  ASSUME FwdStep \/ FwdFault \/ StartService \/ (\E r \in Starts : Start(r))
  PROVE  UNCHANGED <<slot, data, used, next, wpc, wslot, guarded, guard>>
<1>1. ASSUME NEW r, Start(r)
      PROVE  UNCHANGED <<slot, data, used, next, wpc, wslot, guarded, guard>>
  BY <1>1 DEF Start, logVars
<1>2. CASE FwdFault
  BY <1>2 DEF FwdFault, PostFails, SaveFailed, Crash
<1>3. CASE FwdStep
  BY <1>3 DEF FwdStep, StartScan, OpenView, Reconcile, Persist, EndPlace, ReadLine, NextView, NothingToRead,
              WaitForMore, NothingToSend, Deliver, EndScan, PostOK, PostSplit, PostSkip, Commit, Save, logVars
<1> QED BY <1>1, <1>2, <1>3 DEF StartService

\* Of a step that leaves the log alone, what is left to show.
LEMMA SightedFwd ==
  ASSUME Sighted, Inductive', UNCHANGED <<slot, data, used, next, wpc, wslot, guarded, guard>>,
         st' \in {st, disk, Fresh}, disk' \in {disk, st}, SightInv', AheadInv'
  PROVE  Sighted'
<1>1. OrderInv' /\ GuardInv'
  BY LogStill DEF Sighted
<1>2. \A s \in {st, disk, Fresh} : Kept(s)
  BY DEF Sighted, Kept, Fresh
<1>3. \A s \in {st, disk, Fresh} : \A f \in Inodes : s.files[f] # NoCp =>
        LET cp == s.files[f] IN
        /\ f \in used /\ (f \in Linked => cp.missing = 0)
        /\ Len(cp.head) =< Len(data[f]) /\ cp.head = SubSeq(data[f], 1, Len(cp.head))
  BY <1>2 DEF Kept, HeadOf
<1>4. Linked' = Linked
  BY DEF Linked
<1>5. Kept(st)' /\ Kept(disk)'
  BY <1>3, <1>4 DEF Kept, HeadOf
<1> QED BY <1>1, <1>5 DEF Sighted

LEMMA SightedStart ==
  ASSUME Sighted, Inductive', NEW r, Start(r)
  PROVE  Sighted'
<1>1. /\ fpc = "down" /\ fpc' = "open" /\ run' = r /\ st' = (IF r.backfill THEN Fresh ELSE disk)
      /\ UNCHANGED <<slot, data, used, next, wpc, wslot, guarded, guard, opening, views, disk>>
  BY DEF Start, logVars
<1>2. views = <<>> /\ opening = 0
  BY <1>1 DEF Sighted, SightInv
<1>3. SightInv'
  <2>1. \A i \in Slots : 0 =< i
    BY ArchivesAssumption DEF Slots
  <2> QED BY <1>1, <1>2, <2>1 DEF SightInv
<1>4. AheadInv'
  <2>1. \A f \in Inodes : disk.files[f] # NoCp => disk.files[f].off >= disk.files[f].off
    BY DEF Sighted, Inductive, TypeOK, FwdTypeOK, State, Checkpoint
  <2>2. Linked \subseteq Inodes
    BY DEF Sighted, Inductive, TypeOK, LogTypeOK, Linked
  <2> QED BY <1>1, <2>1, <2>2 DEF AheadInv, Ahead, Linked
<1> QED BY <1>1, <1>3, <1>4, SightedFwd

LEMMA SightedStartScan ==
  ASSUME Sighted, Inductive', StartScan
  PROVE  Sighted'
<1>1. /\ fpc = "idle" /\ fpc' = "open"
      /\ UNCHANGED <<slot, data, used, next, wpc, wslot, guarded, guard, opening, views, disk, st, run>>
  BY DEF StartScan, logVars
<1>2. views = <<>> /\ opening = 0
  BY <1>1 DEF Sighted, SightInv
<1>3. SightInv'
  <2>1. \A i \in Slots : 0 =< i
    BY ArchivesAssumption DEF Slots
  <2> QED BY <1>1, <1>2, <2>1 DEF SightInv
<1>4. AheadInv'
  BY <1>1 DEF Sighted, AheadInv, Ahead, Linked
<1> QED BY <1>1, <1>3, <1>4, SightedFwd

LEMMA SightedOpenView ==
  ASSUME Sighted, Inductive', OpenView
  PROVE  Sighted'
<1> DEFINE f == slot[opening]
           v == [key |-> f, size |-> Len(data[f]), path |-> opening]
<1>1. /\ fpc = "open" /\ fpc' \in {"open", "reconcile"}
      /\ UNCHANGED <<slot, data, used, next, wpc, wslot, guarded, guard, disk, st, run>>
      /\ IF opening = Archives THEN fpc' = "reconcile" /\ opening' = 0
                               ELSE fpc' = "open" /\ opening' = opening + 1
      /\ IF f = NoFile \/ f \in ViewKeys THEN views' = views ELSE views' = <<v>> \o views
  BY DEF OpenView, logVars
<1>2. /\ opening \in 0..Archives /\ Archives \in Nat /\ views \in Seq(View) /\ LogTypeOK /\ FwdTypeOK
      /\ FilesInv /\ CheckpointsCovered(st)
  BY ArchivesAssumption DEF Sighted, Inductive, TypeOK, FwdTypeOK, Slots
<1>3. \A i \in DOMAIN views' : (i \in DOMAIN views /\ views'[i] = views[i]) \/ (\E k \in DOMAIN views : views'[i] = views[k])
         \/ (f # NoFile /\ views'[i] = v)
  <2>1. CASE views' = views
    BY <2>1
  <2>2. CASE f # NoFile /\ views' = <<v>> \o views
    <3> HIDE DEF v
    <3>1. DOMAIN views' = 1..(Len(views) + 1) /\ Len(views) \in Nat /\ DOMAIN views = 1..Len(views)
      BY <1>2, <2>2
    <3>2. \A i \in 1..(Len(views) + 1) : views'[i] = IF i = 1 THEN v ELSE views[i - 1]
      BY <1>2, <2>2
    <3>3. \A i \in 1..(Len(views) + 1) : i # 1 => i - 1 \in 1..Len(views)
      BY <3>1
    <3> QED BY <2>2, <3>1, <3>2, <3>3
  <2> QED BY <1>1, <2>1, <2>2
<1>4. ViewKeys \subseteq ViewKeys' /\ (f # NoFile => f \in ViewKeys')
  <2>1. CASE views' = views /\ (f = NoFile \/ f \in ViewKeys)
    BY <2>1 DEF ViewKeys
  <2>2. CASE views' = <<v>> \o views
    <3>1. v.key = f
      OBVIOUS
    <3> HIDE DEF v
    <3>2. DOMAIN views' = 1..(Len(views) + 1) /\ Len(views) \in Nat /\ DOMAIN views = 1..Len(views)
      BY <1>2, <2>2
    <3>3. views'[1] = v /\ \A i \in 1..Len(views) : views'[i + 1] = views[i]
      BY <1>2, <2>2
    <3>4. 1 \in DOMAIN views' /\ \A i \in DOMAIN views : i + 1 \in DOMAIN views'
      BY <3>2
    <3> QED BY <3>1, <3>2, <3>3, <3>4 DEF ViewKeys
  <2> QED BY <1>1, <2>1, <2>2
<1>5. v.key = f /\ v.size = Len(data[f])
  OBVIOUS
<1> HIDE DEF v
<1>6. f # NoFile => f \in used /\ f \in Inodes
  BY <1>2 DEF FilesInv, Linked, Slots, LogTypeOK
<1>7. \A i \in DOMAIN views' : views'[i].key \in used
  BY <1>3, <1>5, <1>6 DEF Sighted, SightInv
<1>8. \A i \in DOMAIN views' :
        st.files[views'[i].key] # NoCp => st.files[views'[i].key].off =< views'[i].size
  <2>1. f # NoFile /\ st.files[f] # NoCp => st.files[f].off =< Len(data[f])
    BY <1>2, <1>6 DEF CheckpointsCovered, Covered
  <2>2. \A i \in DOMAIN views :
          st.files[views[i].key] # NoCp => st.files[views[i].key].off =< views[i].size
    BY <1>1 DEF Sighted, SightInv
  <2> QED BY <1>3, <1>5, <2>1, <2>2
<1>9. ASSUME NEW i \in Slots, slot[i] # NoFile, st.files[slot[i]] # NoCp
      PROVE  slot[i] \in ViewKeys' \/ (fpc' = "open" /\ opening' =< i)
  <2>1. slot[i] \in ViewKeys \/ opening =< i
    BY <1>1, <1>9 DEF Sighted, SightInv
  <2>2. i \in 0..Archives
    BY DEF Slots
  <2>3. CASE slot[i] \in ViewKeys
    BY <1>4, <2>3
  <2>4. CASE i = opening
    BY <1>4, <1>9, <2>4
  <2>5. CASE opening =< i /\ i # opening
    BY <1>1, <1>2, <2>2, <2>5
  <2> QED BY <2>1, <2>3, <2>4, <2>5
<1>10. SightInv'
  BY <1>1, <1>7, <1>8, <1>9 DEF SightInv
<1>11. AheadInv'
  BY <1>1 DEF Sighted, AheadInv, Ahead, Linked
<1> QED BY <1>1, <1>10, <1>11, SightedFwd

\* The steps of a process that neither open files nor change its checkpoints.
Onward ==
  /\ fpc # "down" /\ fpc' \notin {"open", "reconcile"} /\ opening' = 0
  /\ fpc' \in {"down", "idle"} => views' = <<>>
  /\ views' = <<>> \/ views' = views \/ (views # <<>> /\ views' = Tail(views))
  /\ \/ fpc' = "down" /\ st' = Fresh /\ disk' = disk
     \/ st' = st /\ run' = run /\ disk' \in {disk, st}

LEMMA GoesOn ==
  ASSUME Sighted,
         \/ Persist \/ EndPlace \/ ReadLine \/ NextView \/ NothingToRead \/ WaitForMore \/ NothingToSend \/ Deliver
         \/ PostOK \/ PostSplit \/ PostSkip \/ Save \/ FwdFault
  PROVE  Onward
<1>1. (fpc # "open" => opening = 0) /\ (fpc \in {"down", "idle"} => views = <<>>)
  BY DEF Sighted, SightInv
<1>2. CASE EndPlace \/ NothingToRead \/ WaitForMore \/ FwdFault
  <2>1. disk' = disk /\ fpc # "down"
    BY <1>2 DEF EndPlace, NothingToRead, WaitForMore, EndScan, FwdFault, PostFails, SaveFailed, Crash
  <2>2. Halt \/ (Rest /\ UNCHANGED <<run, st>>)
    BY <1>2 DEF EndPlace, NothingToRead, WaitForMore, EndScan, FwdFault, PostFails, SaveFailed, Crash, GiveUp
  <2> QED BY <2>1, <2>2 DEF Halt, Rest, Onward
<1>3. CASE Persist \/ ReadLine \/ NextView \/ PostOK \/ PostSplit \/ PostSkip
  BY <1>1, <1>3 DEF Persist, ReadLine, NextView, PostOK, PostSplit, PostSkip, Onward
<1>4. CASE NothingToSend \/ Deliver
  BY <1>4 DEF NothingToSend, Deliver, EndScan, Onward
<1>5. CASE Save
  BY <1>1, <1>5 DEF Save, Rest, Onward
<1> QED BY <1>2, <1>3, <1>4, <1>5

LEMMA SightedOnward ==
  ASSUME Sighted, Inductive', Onward, UNCHANGED <<slot, data, used, next, wpc, wslot, guarded, guard>>
  PROVE  Sighted'
<1>1. \A i \in DOMAIN views' : \E k \in DOMAIN views : views'[i] = views[k]
  <2>1. views \in Seq(View)
    BY DEF Sighted, Inductive, TypeOK, FwdTypeOK
  <2>2. CASE views # <<>> /\ views' = Tail(views)
    <3>1. \A i \in DOMAIN Tail(views) : i + 1 \in DOMAIN views /\ Tail(views)[i] = views[i + 1]
      BY <2>1, <2>2
    <3> QED BY <2>2, <3>1
  <2> QED BY <2>2 DEF Onward
<1>2. \A i \in DOMAIN views' : views'[i].key \in used
  BY <1>1 DEF Sighted, SightInv
<1>3. SightInv'
  BY <1>2 DEF SightInv, Onward
<1>4. AheadInv'
  <2>1. \A f \in Linked : st.files[f] # NoCp => st.files[f].off >= st.files[f].off
    <3>1. Linked \subseteq Inodes
      BY DEF Sighted, Inductive, TypeOK, LogTypeOK, Linked
    <3> QED BY <3>1 DEF Sighted, Inductive, TypeOK, FwdTypeOK, State, Checkpoint
  <2> QED BY <2>1 DEF Onward, Sighted, AheadInv, Ahead, Linked
<1> QED BY <1>3, <1>4, SightedFwd DEF Onward

\* A file this scan opened keeps its offset, and its checkpoint the file's head.
LEMMA PlacedKept ==
  ASSUME Sighted, fpc = "reconcile", NEW i \in DOMAIN views
  PROVE  LET v == views[i]
             old == st.files[v.key]
             cp == Placed(v)
         IN  /\ cp.missing = 0 /\ (old # NoCp => cp.off = old.off)
             /\ Len(cp.head) =< Len(data[v.key]) /\ cp.head = HeadOf(v.key, Len(cp.head))
<1> DEFINE v == views[i]
           f == v.key
           old == st.files[f]
           off == IF old = NoCp THEN FirstOffset(v) ELSE old.off
           head == IF old = NoCp THEN <<>> ELSE old.head
           replaced == Replaced(v, off, head)
           off1 == IF replaced THEN 0 ELSE off
           head1 == IF replaced THEN <<>> ELSE head
           n == IF off1 < HeadMax THEN off1 ELSE HeadMax
           head2 == IF n > Len(head1) THEN HeadOf(f, n) ELSE head1
<1>1. Placed(v) = [off |-> off1, size |-> v.size, path |-> v.path, missing |-> 0, head |-> head2]
  BY DEF Placed
<1>2. /\ Inductive /\ LogTypeOK /\ FwdTypeOK /\ f \in Inodes /\ v.size \in Nat /\ v.size =< Len(data[f])
      /\ data[f] \in Seq(Unit)
  BY Elements DEF Sighted, Inductive, TypeOK, ViewsInv, LogTypeOK
<1>3. Placed(v) \in Checkpoint /\ Placed(v).off =< Len(data[f])
  BY <1>2, PlacedCovered DEF Covered
<1>4. old # NoCp => /\ old \in Checkpoint /\ old.off =< v.size
                    /\ Len(old.head) =< Len(data[f]) /\ old.head = HeadOf(f, Len(old.head))
  <2>1. old # NoCp => old \in Checkpoint
    BY <1>2 DEF FwdTypeOK, State
  <2>2. old # NoCp => old.off =< v.size
    BY DEF Sighted, SightInv
  <2>3. old # NoCp => Len(old.head) =< Len(data[f]) /\ old.head = HeadOf(f, Len(old.head))
    BY <1>2 DEF Sighted, Kept
  <2> QED BY <2>1, <2>2, <2>3
<1> HIDE DEF v, f, old
<1>5. old # NoCp => old.off \in Nat /\ old.head \in Seq(Unit)
  BY <1>4 DEF Checkpoint
<1>6. old # NoCp => ~replaced
  <2>1. old # NoCp => ~(v.size < old.off)
    BY <1>2, <1>4, <1>5
  <2> QED BY <1>4, <2>1 DEF Replaced, f
<1>7. /\ head1 \in Seq(Unit) /\ Len(head1) \in Nat /\ Len(head1) =< Len(data[f]) /\ head1 = HeadOf(f, Len(head1))
  <2>1. /\ <<>> \in Seq(Unit) /\ Len(<<>>) = 0 /\ <<>> = SubSeq(data[f], 1, 0)
    BY <1>2
  <2>2. head1 # <<>> => old # NoCp /\ head1 = old.head
    OBVIOUS
  <2> HIDE DEF head1
  <2>3. CASE head1 = <<>>
    <3>1. Len(head1) = 0 /\ head1 \in Seq(Unit) /\ head1 = HeadOf(f, 0)
      BY <2>1, <2>3 DEF HeadOf
    <3>2. 0 \in Nat /\ 0 =< Len(data[f])
      BY <1>2
    <3> QED BY <3>1, <3>2
  <2>4. CASE head1 # <<>>
    <3>1. \A s \in Seq(Unit) : Len(s) \in Nat
      OBVIOUS
    <3> QED BY <1>4, <1>5, <2>2, <2>4, <3>1
  <2> QED BY <2>3, <2>4
<1>8. off1 \in Nat /\ off1 =< Len(data[f])
  BY <1>1, <1>3 DEF Checkpoint
<1> HIDE DEF off1, head1
<1>9. n \in Nat /\ n =< Len(data[f])
  BY <1>2, <1>8, LimitsAssumption
<1> HIDE DEF n
<1>10. Len(HeadOf(f, n)) = n
  BY <1>2, <1>9 DEF HeadOf
<1>11. Len(head2) =< Len(data[f]) /\ head2 = HeadOf(f, Len(head2))
  BY <1>7, <1>9, <1>10
<1> HIDE DEF head2
<1>12. Placed(v).off = off1 /\ Placed(v).head = head2 /\ Placed(v).missing = 0
  BY <1>1
<1>13. old # NoCp => off1 = old.off
  BY <1>6 DEF off1
<1> QED BY <1>11, <1>12, <1>13 DEF v, f, old

\* Of a step that changes the checkpoints in memory, what is left to show.
LEMMA SightedChange ==
  ASSUME Sighted, Inductive', UNCHANGED <<logVars, run, disk>>, fpc # "down",
         \A f \in Inodes : st'.files[f] # NoCp =>
           LET cp == st'.files[f] IN
           /\ f \in used /\ (f \in Linked => cp.missing = 0)
           /\ Len(cp.head) =< Len(data[f]) /\ cp.head = HeadOf(f, Len(cp.head)),
         \A f \in Linked : st.files[f] # NoCp => st'.files[f] # NoCp /\ st'.files[f].off >= st.files[f].off,
         SightInv'
  PROVE  Sighted'
<1>1. /\ UNCHANGED <<slot, data, used, next, wpc, wslot, guarded, guard>> /\ disk' = disk /\ run' = run
      /\ Linked' = Linked
  BY DEF logVars, Linked
<1>2. OrderInv' /\ GuardInv'
  BY <1>1, LogStill DEF Sighted
<1>3. Kept(disk)'
  BY <1>1 DEF Sighted, Kept, HeadOf
<1>4. Kept(st)'
  BY <1>1 DEF Kept, HeadOf
<1>5. AheadInv'
  <2> SUFFICES ASSUME ~run.backfill, NEW f \in Linked, disk.files[f] # NoCp
               PROVE  st'.files[f] # NoCp /\ st'.files[f].off >= disk.files[f].off
    BY <1>1 DEF AheadInv, Ahead
  <2>1. st.files[f] # NoCp /\ st.files[f].off >= disk.files[f].off
    BY DEF Sighted, AheadInv, Ahead
  <2>2. st'.files[f] # NoCp /\ st'.files[f].off >= st.files[f].off
    BY <2>1
  <2>3. f \in Inodes
    BY DEF Sighted, Inductive, TypeOK, LogTypeOK, Linked
  <2>4. st.files[f] \in Checkpoint /\ disk.files[f] \in Checkpoint
    BY <2>1, <2>3 DEF Sighted, Inductive, TypeOK, FwdTypeOK, State
  <2>5. st'.files[f] \in Checkpoint
    BY <2>2, <2>3 DEF Inductive, TypeOK, FwdTypeOK, State
  <2>6. \A x, y, z \in Nat : x >= y /\ y >= z => x >= z
    OBVIOUS
  <2> QED BY <2>1, <2>2, <2>4, <2>5, <2>6 DEF Checkpoint
<1> QED BY <1>2, <1>3, <1>4, <1>5 DEF Sighted

LEMMA SightedReconcile ==
  ASSUME Sighted, Inductive', Reconcile
  PROVE  Sighted'
<1>1. /\ UNCHANGED <<logVars, run, disk, opening, views>> /\ st' = Reconciled
      /\ fpc = "reconcile" /\ fpc' \in {"persist", "read"}
  BY DEF Reconcile
<1>2. FwdTypeOK /\ LogTypeOK
  BY DEF Sighted, Inductive, TypeOK
<1>3. ASSUME NEW f \in Inodes, f \in ViewKeys
      PROVE  LET cp == st'.files[f] IN
             /\ f \in used /\ cp # NoCp /\ cp.missing = 0 /\ (st.files[f] # NoCp => cp.off = st.files[f].off)
             /\ Len(cp.head) =< Len(data[f]) /\ cp.head = HeadOf(f, Len(cp.head))
  <2> DEFINE V == {views[i] : i \in DOMAIN views}
             v == CHOOSE x \in V : x.key = f
  <2>1. v \in V /\ v.key = f
    BY <1>3 DEF ViewKeys
  <2>2. PICK i \in DOMAIN views : views[i] = v
    BY <2>1
  <2>3. st'.files[f] = Placed(v)
    BY <1>1, <1>3 DEF Reconciled
  <2> HIDE DEF v
  <2>4. Placed(v) # NoCp
    BY <2>2, PlacedCovered, NoCpAssumption DEF Sighted
  <2>5. f \in used
    BY <2>1, <2>2 DEF Sighted, SightInv
  <2> QED BY <1>1, <2>1, <2>2, <2>3, <2>4, <2>5, PlacedKept
<1>4. ASSUME NEW f \in Inodes, f \notin ViewKeys, st'.files[f] # NoCp
      PROVE  LET cp == st'.files[f] IN
             /\ st.files[f] # NoCp /\ cp.head = st.files[f].head
  <2>1. st.files[f] # NoCp /\ st.files[f] \in Checkpoint /\ st'.files[f] = [st.files[f] EXCEPT !.missing = @ + 1]
    BY <1>1, <1>2, <1>4 DEF Reconciled, NotFound, FwdTypeOK, State
  <2> QED BY <2>1 DEF Checkpoint
<1>5. \A f \in Linked : st.files[f] # NoCp => f \in ViewKeys /\ f \in Inodes
  BY <1>1, <1>2 DEF Sighted, SightInv, Linked, LogTypeOK
<1>6. \A f \in Inodes : st'.files[f] # NoCp =>
           LET cp == st'.files[f] IN
           /\ f \in used /\ (f \in Linked => cp.missing = 0)
           /\ Len(cp.head) =< Len(data[f]) /\ cp.head = HeadOf(f, Len(cp.head))
  BY <1>3, <1>4, <1>5 DEF Sighted, Kept
<1>7. \A f \in Linked : st.files[f] # NoCp => st'.files[f] # NoCp /\ st'.files[f].off >= st.files[f].off
  <2>1. \A f \in Inodes : st.files[f] # NoCp => st.files[f].off \in Nat
    BY <1>2 DEF FwdTypeOK, State, Checkpoint
  <2>2. \A x, y \in Nat : x = y => x >= y
    OBVIOUS
  <2> QED BY <1>3, <1>5, <2>1, <2>2
<1>8. SightInv'
  BY <1>1 DEF SightInv, Sighted, logVars
<1> QED BY <1>1, <1>6, <1>7, <1>8, SightedChange

\* The offset that a commit gives a checkpoint does not go back.
LEMMA CommitMax ==
  ASSUME Inductive, fpc = "commit", NEW f \in Inodes, st.files[f] # NoCp
  PROVE  /\ Max({st.files[f].off} \cup Ends(f)) \in Nat
         /\ Max({st.files[f].off} \cup Ends(f)) >= st.files[f].off
         /\ \A x \in Ends(f) : x =< Max({st.files[f].off} \cup Ends(f))
         /\ Max({st.files[f].off} \cup Ends(f)) \in {st.files[f].off} \cup Ends(f)
<1> DEFINE S == {st.files[f].off} \cup Ends(f)
<1>1. LogTypeOK /\ FwdTypeOK /\ BatchInv /\ CheckpointsCovered(st)
  BY DEF Inductive, TypeOK
<1>2. Part \subseteq DOMAIN batch
  BY PartInBatch
<1>3. Len(data[f]) \in Nat
  BY <1>1 DEF LogTypeOK
<1>4. st.files[f].off \in Nat /\ st.files[f].off =< Len(data[f])
  <2>1. st.files[f] \in Checkpoint
    BY <1>1 DEF FwdTypeOK, State
  <2> QED BY <1>1, <2>1 DEF Checkpoint, CheckpointsCovered, Covered
<1>5. \A k \in Part : batch[k].key = f => batch[k].end \in Nat /\ batch[k].end =< Len(data[f])
  BY <1>1, <1>2, Elements DEF BatchInv, Covered
<1>6. S \in SUBSET (0..Len(data[f])) /\ S # {} /\ st.files[f].off \in S /\ Ends(f) \subseteq S
  BY <1>3, <1>4, <1>5 DEF Ends
<1> HIDE DEF S
<1>7. Max(S) \in S /\ st.files[f].off =< Max(S) /\ \A x \in Ends(f) : x =< Max(S)
  BY <1>3, <1>6, MaxBounded
<1>8. Max(S) \in Nat /\ Max(S) >= st.files[f].off
  <2>1. \A x \in 0..Len(data[f]) : x \in Nat
    BY <1>3
  <2>2. \A x, y \in Nat : x =< y => y >= x
    OBVIOUS
  <2> DEFINE m == Max(S)
  <2>3. m \in 0..Len(data[f]) /\ st.files[f].off =< m
    BY <1>6, <1>7
  <2> HIDE DEF m
  <2>4. m \in Nat /\ m >= st.files[f].off
    BY <1>4, <2>1, <2>2, <2>3
  <2> QED BY <2>4 DEF m
<1> QED BY <1>7, <1>8 DEF S

LEMMA SightedCommit ==
  ASSUME Sighted, Inductive', Commit
  PROVE  Sighted'
<1>1. /\ UNCHANGED <<logVars, run, disk, opening, views>>
      /\ fpc = "commit" /\ fpc' = "save"
  BY DEF Commit
<1>2. FwdTypeOK /\ LogTypeOK /\ Inductive
  BY DEF Sighted, Inductive, TypeOK
<1>3. ASSUME NEW f \in Inodes, st.files[f] # NoCp
      PROVE  /\ st'.files[f] # NoCp /\ st'.files[f].off >= st.files[f].off
             /\ st'.files[f].head = st.files[f].head /\ st'.files[f].missing = st.files[f].missing
  <2> DEFINE cp == st.files[f]
             max == Max({cp.off} \cup Ends(f))
  <2>1. st'.files[f] = [cp EXCEPT !.off = max]
    BY <1>2, <1>3 DEF Commit, FwdTypeOK, State
  <2>2. cp \in Checkpoint
    BY <1>2, <1>3 DEF FwdTypeOK, State
  <2>3. max \in Nat /\ max >= cp.off
    BY <1>1, <1>2, <1>3, CommitMax
  <2> HIDE DEF cp, max
  <2>4. st'.files[f] \in Checkpoint /\ st'.files[f].off = max /\ st'.files[f].head = cp.head
        /\ st'.files[f].missing = cp.missing
    BY <2>1, <2>2, <2>3 DEF Checkpoint
  <2> QED BY <2>3, <2>4, NoCpAssumption DEF cp
<1>4. \A f \in Inodes : st.files[f] = NoCp => st'.files[f] = NoCp
  BY <1>2 DEF Commit, FwdTypeOK, State
<1>5. \A f \in Inodes : st'.files[f] # NoCp =>
           LET cp == st'.files[f] IN
           /\ f \in used /\ (f \in Linked => cp.missing = 0)
           /\ Len(cp.head) =< Len(data[f]) /\ cp.head = HeadOf(f, Len(cp.head))
  BY <1>3, <1>4 DEF Sighted, Kept
<1>6. \A f \in Linked : st.files[f] # NoCp => st'.files[f] # NoCp /\ st'.files[f].off >= st.files[f].off
  <2>1. Linked \subseteq Inodes
    BY <1>2 DEF LogTypeOK, Linked
  <2> QED BY <1>3, <2>1
<1>7. SightInv'
  BY <1>1 DEF SightInv, Sighted, logVars
<1> QED BY <1>1, <1>5, <1>6, <1>7, SightedChange

LEMMA SightedInit == Init => Sighted
<1> SUFFICES ASSUME Init PROVE Sighted
  OBVIOUS
<1>1. Inductive /\ OrderInv /\ GuardInv
  BY InductiveInit, OrderInit, GuardInit DEF Init
<1>2. fpc = "down" /\ opening = 0 /\ views = <<>> /\ st = Fresh /\ disk = Fresh
  BY DEF Init, FwdInit
<1>3. Kept(Fresh)
  BY DEF Kept, Fresh
<1>4. Kept(st) /\ Kept(disk) /\ SightInv /\ AheadInv
  BY <1>2, <1>3 DEF SightInv, AheadInv
<1> QED BY <1>1, <1>4 DEF Sighted

LEMMA SightedStep ==
  ASSUME Sighted, ~InodeReuse, [Next]_vars
  PROVE  Sighted'
<1>1. Inductive'
  BY InductiveStep DEF Sighted
<1>2. CASE Writers
  BY <1>1, <1>2, SightedWriters
<1>3. CASE StartService \/ \E r \in Starts : Start(r)
  BY <1>1, <1>3, SightedStart DEF StartService
<1>4. CASE FwdStep \/ FwdFault
  <2>1. UNCHANGED <<slot, data, used, next, wpc, wslot, guarded, guard>>
    BY <1>4, FwdLeavesLog
  <2>2. CASE StartScan \/ OpenView \/ Reconcile \/ Commit
    BY <1>1, <2>2, SightedStartScan, SightedOpenView, SightedReconcile, SightedCommit
  <2>3. CASE Onward
    BY <1>1, <2>1, <2>3, SightedOnward
  <2> QED BY <1>4, <2>2, <2>3, GoesOn DEF FwdStep
<1>5. CASE UNCHANGED vars
  <2>1. /\ UNCHANGED <<slot, data, used, next, wpc, wslot, guarded, guard>>
        /\ UNCHANGED <<fpc, run, opening, views, st, disk>>
    BY <1>5 DEF vars, logVars, fwdVars
  <2>2. SightInv' /\ AheadInv'
    BY <2>1 DEF Sighted, SightInv, ViewKeys, AheadInv, Ahead, Linked
  <2> QED BY <1>1, <2>1, <2>2, SightedFwd
<1> QED BY <1>2, <1>3, <1>4, <1>5 DEF Next

LEMMA SightedAlways == ~InodeReuse => (Spec => []Sighted)
<1> SUFFICES ASSUME ~InodeReuse PROVE Spec => []Sighted
  OBVIOUS
<1>1. Init => Sighted
  BY SightedInit
<1>2. Sighted /\ [Next]_vars => Sighted'
  BY SightedStep
<1> QED BY <1>1, <1>2, PTL DEF Spec

\* A scan that races a rotation loses sight of no file that the log still holds
\* (openViews and reconcile, scan.go).
THEOREM RetainedCorrect == ~InodeReuse => (Spec => []RetainedNotForgotten)
<1>1. Sighted => RetainedNotForgotten
  BY DEF Sighted, Inductive, TypeOK, LogTypeOK, Kept, RetainedNotForgotten, Linked
<1> QED BY <1>1, SightedAlways, PTL

-----------------------------------------------------------------------------
(* Every step keeps the promise of AtLeastOnce.                            *)

\* Events of the log that the checkpoints of s pass: Done is those of disk.
Passes(s) ==
  {e \in Retained : \E f \in Linked : \E j \in DOMAIN data[f] :
     data[f][j].ev = e /\ s.files[f] # NoCp /\ j =< s.files[f].off}

LEMMA PassesSettled ==
  ASSUME LogTypeOK, NEW s \in State, CheckpointsCovered(s)
  PROVE  Passes(s) \subseteq Retained \cap (accepted \cup passed)
<1> SUFFICES ASSUME NEW e \in Passes(s) PROVE e \in Settled
  BY DEF Passes, Settled
<1>1. PICK f \in Linked : \E j \in DOMAIN data[f] :
        data[f][j].ev = e /\ s.files[f] # NoCp /\ j =< s.files[f].off
  BY DEF Passes
<1>2. PICK j \in DOMAIN data[f] : data[f][j].ev = e /\ s.files[f] # NoCp /\ j =< s.files[f].off
  BY <1>1
<1>3. f \in Inodes /\ s.files[f] \in Checkpoint /\ data[f] \in Seq(Unit)
  BY <1>2 DEF Linked, LogTypeOK, State
<1>4. j \in 1..s.files[f].off
  BY <1>2, <1>3 DEF Checkpoint
<1> QED BY <1>2, <1>3, <1>4 DEF CheckpointsCovered, Covered

LEMMA RetainedType ==
  ASSUME LogTypeOK
  PROVE  Retained \in SUBSET Events /\ Linked \subseteq Inodes
<1>1. Linked \subseteq Inodes
  BY DEF LogTypeOK, Linked
<1>2. \A f \in Inodes : UnitEvents(f) \subseteq Events
  BY UnitEventsType
<1> QED BY <1>1, <1>2 DEF Retained, UnitEvents

\* One unit more in a file of the log, or in a new one: its event is retained,
\* and no checkpoint passes it.
LEMMA UnitPromised ==
  ASSUME LogTypeOK, FwdTypeOK, CheckpointsCovered(disk),
         NEW f \in Inodes, NEW x \in Unit, f \in Linked \/ data[f] = <<>>,
         data' = [data EXCEPT ![f] = @ \o <<x>>], Linked' = Linked \cup {f}, disk' = disk
  PROVE  Retained' = Retained \cup {x.ev} /\ Done' = Done
<1>1. /\ data \in [Inodes -> Seq(Unit)] /\ data[f] \in Seq(Unit) /\ Linked \subseteq Inodes
      /\ Len(data[f]) \in Nat
  BY RetainedType DEF LogTypeOK
<1>2. data'[f] = data[f] \o <<x>> /\ \A g \in Inodes : g # f => data'[g] = data[g]
  BY <1>1
<1>3. /\ DOMAIN data'[f] = 1..(Len(data[f]) + 1) /\ DOMAIN data[f] = 1..Len(data[f])
      /\ data'[f][Len(data[f]) + 1] = x /\ \A j \in 1..Len(data[f]) : data'[f][j] = data[f][j]
  BY <1>1, <1>2
<1> HIDE DEF Unit
<1>4. Len(data[f]) + 1 \in 1..(Len(data[f]) + 1)
      /\ 1..(Len(data[f]) + 1) = (1..Len(data[f])) \cup {Len(data[f]) + 1}
  BY <1>1
<1>5. EventsIn(data'[f]) = EventsIn(data[f]) \cup {x.ev}
  BY <1>3, <1>4 DEF EventsIn
<1>6. data[f] = <<>> => EventsIn(data[f]) = {} /\ DOMAIN data[f] = {}
  BY DEF EventsIn
<1>7. Retained' = Retained \cup {x.ev}
  <2> DEFINE ev(g) == EventsIn(data[g])
             evn(g) == EventsIn(data'[g])
  <2>1. \A g \in Inodes : g # f => evn(g) = ev(g)
    BY <1>2
  <2>2. evn(f) = ev(f) \cup {x.ev} /\ (f \in Linked \/ ev(f) = {})
    BY <1>5, <1>6
  <2>3. Retained = UNION {ev(g) : g \in Linked} /\ Retained' = UNION {evn(g) : g \in Linked'}
    BY DEF Retained
  <2> HIDE DEF ev, evn
  <2>4. \A e : (\E g \in Linked' : e \in evn(g)) <=> (\E g \in Linked : e \in ev(g)) \/ e = x.ev
    BY <1>1, <2>1, <2>2
  <2> QED BY <2>3, <2>4
<1>8. disk.files[f] # NoCp => ~(Len(data[f]) + 1 =< disk.files[f].off)
  <2>1. disk.files[f] # NoCp => disk.files[f].off \in Nat /\ disk.files[f].off =< Len(data[f])
    BY DEF FwdTypeOK, State, Checkpoint, CheckpointsCovered, Covered
  <2> QED BY <1>1, <2>1
<1> DEFINE At(e, g, u) == \E j \in DOMAIN u : u[j].ev = e /\ disk.files[g] # NoCp /\ j =< disk.files[g].off
<1>9. \A e : At(e, f, data'[f]) <=> At(e, f, data[f])
  BY <1>3, <1>4, <1>8
<1>10. \A e : \A g \in Inodes : At(e, g, data'[g]) <=> At(e, g, data[g])
  <2> TAKE e
  <2> TAKE g \in Inodes
  <2> HIDE DEF At
  <2>1. CASE g = f
    BY <1>9, <2>1
  <2>2. CASE g # f
    <3>1. data'[g] = data[g]
      BY <1>2, <2>2
    <3> QED BY <3>1
  <2> QED BY <2>1, <2>2
<1>11. \A e : At(e, f, data[f]) => f \in Linked
  BY <1>6
<1>12. Done = {e \in Retained : \E g \in Linked : At(e, g, data[g])}
  BY DEF Done
<1>13. Done' = {e \in Retained' : \E g \in Linked' : At(e, g, data'[g])}
  BY DEF Done
<1>14. \A e : \A g \in Linked : At(e, g, data[g]) => e \in Retained
  BY DEF Retained, UnitEvents, EventsIn
<1> HIDE DEF At
<1>15. Done' = Done
  BY <1>1, <1>7, <1>10, <1>11, <1>12, <1>13, <1>14
<1> QED BY <1>7, <1>15

LEMMA AppendPromised ==
  ASSUME Sighted, ~InodeReuse, Writers, WriteBody(ViewKeys) \/ WriteEnd
  PROVE  Promise!Append(next) /\ next \in Events
<1>1. /\ LogTypeOK /\ FwdTypeOK /\ FilesInv /\ CheckpointsCovered(disk)
      /\ UNCHANGED <<disk, accepted, passed>>
  BY DEF Sighted, Inductive, TypeOK, Writers, fwdVars
<1>2. next \in Events /\ 0 \in Slots /\ slot \in [Slots -> Inodes \cup {NoFile}] /\ data \in [Inodes -> Seq(Unit)]
  BY <1>1, ArchivesAssumption DEF LogTypeOK, WriteBody, WriteEnd, Slots
<1>3. Line(next)[1] \in Unit /\ Line(next)[2] \in Unit /\ Line(next)[1].ev = next /\ Line(next)[2].ev = next
  BY <1>2 DEF Line, Unit
<1>4. \E f \in Inodes : \E x \in Unit :
        /\ x.ev = next /\ (f \in Linked \/ data[f] = <<>>)
        /\ data' = [data EXCEPT ![f] = @ \o <<x>>] /\ Linked' = Linked \cup {f}
  <2>1. CASE WriteEnd
    <3>1. slot[0] \in Linked /\ slot[0] \in Inodes
      BY <1>1, <1>2, <2>1 DEF WriteEnd, FilesInv, Linked
    <3>2. Linked' = Linked
      BY <2>1 DEF WriteEnd, Linked
    <3>3. data' = [data EXCEPT ![slot[0]] = @ \o <<Line(next)[2]>>]
      BY <2>1 DEF WriteEnd
    <3> QED BY <1>3, <3>1, <3>2, <3>3
  <2>2. CASE WriteBody(ViewKeys) /\ slot[0] # NoFile
    <3>1. slot[0] \in Linked /\ slot[0] \in Inodes
      BY <1>2, <2>2 DEF Linked
    <3>2. Linked' = Linked
      BY <2>2 DEF WriteBody, Linked
    <3>3. data' = [data EXCEPT ![slot[0]] = @ \o <<Line(next)[1]>>]
      BY <2>2 DEF WriteBody
    <3> QED BY <1>3, <3>1, <3>2, <3>3
  <2>3. CASE WriteBody(ViewKeys) /\ slot[0] = NoFile
    <3>1. PICK f \in Inodes \ used : slot' = [slot EXCEPT ![0] = f] /\ data' = [data EXCEPT ![f] = <<Line(next)[1]>>]
      BY <2>3 DEF WriteBody, Free
    <3>2. data[f] = <<>> /\ <<>> \o <<Line(next)[1]>> = <<Line(next)[1]>>
      BY <1>1, <1>3, <3>1 DEF FilesInv
    <3>3. f # NoFile
      BY <3>1, InodesAssumption
    <3>4. Linked' = Linked \cup {f}
      BY <1>2, <2>3, <3>1, <3>3 DEF Linked
    <3> QED BY <1>2, <1>3, <3>1, <3>2, <3>4
  <2> QED BY <2>1, <2>2, <2>3
<1>5. Retained' = Retained \cup {next} /\ Done' = Done
  BY <1>1, <1>4, UnitPromised
<1> QED BY <1>1, <1>2, <1>5 DEF Promise!Append

\* Rotation only takes files away, and the events of those left are in no other.
LEMMA RotatePromised ==
  ASSUME Sighted, ~InodeReuse, Writers, RotateStep
  PROVE  Promise!Discard(Retained \ Retained')
<1>1. LogTypeOK /\ FilesInv /\ OneFileInv /\ UNCHANGED <<disk, accepted, passed>>
  BY DEF Sighted, Inductive, TypeOK, Writers, fwdVars, GuardInv
<1>2. data' = data
  BY DEF RotateStep
<1>3. Linked' \subseteq Linked
  <2>1. slot \in [Slots -> Inodes \cup {NoFile}] /\ wslot \in Slots
    BY <1>1 DEF LogTypeOK
  <2>2. \A i \in Slots : slot'[i] # NoFile => \E k \in Slots : slot'[i] = slot[k]
    BY <2>1 DEF RotateStep
  <2> QED BY <2>2 DEF Linked
<1>4. Linked \subseteq Inodes
  BY <1>1, RetainedType
<1>5. Retained' \subseteq Retained
  BY <1>2, <1>3 DEF Retained, UnitEvents
<1> DEFINE At(e, f) == \E j \in DOMAIN data[f] : data[f][j].ev = e /\ disk.files[f] # NoCp /\ j =< disk.files[f].off
<1>6. Done = {e \in Retained : \E f \in Linked : At(e, f)} /\ Done' = {e \in Retained' : \E f \in Linked' : At(e, f)}
  BY <1>1, <1>2 DEF Done
<1>7. \A e, f : At(e, f) => e \in UnitEvents(f)
  BY DEF UnitEvents, EventsIn
<1> HIDE DEF At
<1>8. ASSUME NEW e \in Done, e \in Retained' PROVE e \in Done'
  <2>1. PICK f \in Linked : At(e, f)
    BY <1>6
  <2>2. PICK g \in Linked' : e \in UnitEvents(g)
    BY <1>2, <1>8 DEF Retained, UnitEvents
  <2>3. f = g
    BY <1>1, <1>3, <1>4, <1>7, <2>1, <2>2 DEF OneFileInv
  <2> QED BY <1>6, <1>8, <2>1, <2>2, <2>3
<1>9. Done' = Done \ (Retained \ Retained')
  BY <1>3, <1>5, <1>6, <1>8
<1> QED BY <1>1, <1>5, <1>9 DEF Promise!Discard

\* What brainsrv takes or a checkpoint passes over, and the checkpoints it is
\* saved in, are steps of the promise.
LEMMA GivenPromised ==
  ASSUME UNCHANGED <<slot, data, disk>>, FwdTypeOK', accepted \subseteq accepted', passed \subseteq passed',
         accepted' = accepted \/ passed' = passed
  PROVE  Promise!Take(accepted') \/ Promise!Exempt(passed')
<1>1. Retained' = Retained /\ Done' = Done
  BY DEF Retained, Done, Linked, UnitEvents
<1> QED BY <1>1 DEF Promise!Take, Promise!Exempt

LEMMA SavePromised ==
  ASSUME Sighted, UNCHANGED <<slot, data, accepted, passed>>, fpc # "down", disk' = st
  PROVE  Promise!Confirm(Passes(st)) \/ Promise!Backfill(Passes(st))
<1>1. LogTypeOK /\ FwdTypeOK /\ CheckpointsCovered(st) /\ CheckpointsCovered(disk) /\ AheadInv
  BY DEF Sighted, Inductive, TypeOK
<1>2. Retained' = Retained /\ Linked' = Linked
  BY DEF Retained, Linked, UnitEvents
<1>3. Done' = Passes(st) /\ Done = Passes(disk)
  BY <1>2 DEF Done, Passes
<1>4. Passes(st) \subseteq Retained \cap (accepted \cup passed)
  BY <1>1, PassesSettled DEF FwdTypeOK
<1>5. ASSUME Ahead PROVE Passes(disk) \subseteq Passes(st)
  <2> SUFFICES ASSUME NEW e \in Retained, NEW f \in Linked, NEW j \in DOMAIN data[f],
                      data[f][j].ev = e, disk.files[f] # NoCp, j =< disk.files[f].off
               PROVE  e \in Passes(st)
    BY DEF Passes
  <2>1. st.files[f] # NoCp /\ st.files[f].off >= disk.files[f].off
    BY <1>5 DEF Ahead
  <2>2. f \in Inodes /\ data[f] \in Seq(Unit)
    BY <1>1, RetainedType DEF LogTypeOK
  <2>3. st.files[f].off \in Nat /\ disk.files[f].off \in Nat /\ j \in Nat
    BY <1>1, <2>1, <2>2 DEF FwdTypeOK, State, Checkpoint
  <2>4. j =< st.files[f].off
    BY <2>1, <2>3
  <2> QED BY <2>1, <2>4 DEF Passes
<1>6. CASE Ahead
  BY <1>2, <1>3, <1>4, <1>5, <1>6 DEF Promise!Confirm
<1>7. CASE ~Ahead
  <2>1. run.backfill
    BY <1>1, <1>7 DEF AheadInv
  <2> QED BY <1>2, <1>3, <1>4, <1>7, <2>1 DEF Promise!Backfill
<1> QED BY <1>6, <1>7

LEMMA PromiseInit == Init => Promise!Init
<1> SUFFICES ASSUME Init PROVE Promise!Init
  OBVIOUS
<1>1. Linked = {}
  BY DEF Init, LogInit, Linked
<1>2. Retained = {} /\ Done = {}
  BY <1>1 DEF Retained, Done
<1> QED BY <1>2 DEF Promise!Init, Init, FwdInit

LEMMA PromiseStep ==
  ASSUME Sighted, ~InodeReuse, [Next]_vars
  PROVE  [Promise!Next]_(Promise!vars)
<1> DEFINE Subs == SUBSET Events
<1>1. LogTypeOK /\ FwdTypeOK /\ LogTypeOK' /\ FwdTypeOK' /\ st \in State /\ CheckpointsCovered(st)
  <2>1. Inductive'
    BY InductiveStep DEF Sighted
  <2> QED BY <2>1 DEF Sighted, Inductive, TypeOK, FwdTypeOK
<1>2. ASSUME UNCHANGED <<slot, data, disk, accepted, passed>> PROVE UNCHANGED Promise!vars
  BY <1>2 DEF Promise!vars, Retained, Done, Linked, UnitEvents
<1>3. /\ accepted' \in SUBSET Events /\ passed' \in SUBSET Events /\ Retained \in SUBSET Events
      /\ (Retained \ Retained') \in SUBSET Events /\ Passes(st) \in SUBSET Events
  BY <1>1, RetainedType DEF FwdTypeOK, Passes
<1>4. CASE Writers
  <2>1. CASE WriteBody(ViewKeys) \/ WriteEnd
    BY <1>4, <2>1, AppendPromised DEF Promise!Next
  <2>2. CASE RotateStep
    BY <1>3, <1>4, <2>2, RotatePromised DEF Promise!Next
  <2>3. CASE (\E g \in Guards : BeginAppend(g)) \/ WriterFails
    BY <1>2, <1>4, <2>3 DEF BeginAppend, WriterFails, Writers, fwdVars
  <2> QED BY <1>4, <2>1, <2>2, <2>3 DEF Writers, WriterNext, WriterStep
<1>5. CASE PostOK \/ PostFails \/ Reconcile \/ Commit
  <2>1. /\ UNCHANGED <<slot, data, disk>> /\ accepted \subseteq accepted' /\ passed \subseteq passed'
        /\ accepted' = accepted \/ passed' = passed
    BY <1>5 DEF PostOK, PostFails, Reconcile, Commit, logVars
  <2>2. Promise!Take(accepted') \/ Promise!Exempt(passed')
    BY <1>1, <2>1, GivenPromised
  <2> QED BY <1>3, <2>2 DEF Promise!Next
<1>6. CASE Persist \/ Save
  <2>1. UNCHANGED <<slot, data, accepted, passed>> /\ fpc # "down" /\ disk' = st
    BY <1>6 DEF Persist, Save, logVars
  <2> QED BY <1>3, <2>1, SavePromised DEF Promise!Next
<1>7. ASSUME NEW r, Start(r) PROVE UNCHANGED Promise!vars
  BY <1>2, <1>7 DEF Start, logVars
<1>8. CASE StartScan \/ OpenView \/ EndPlace \/ ReadLine \/ NextView \/ NothingToRead \/ WaitForMore
           \/ NothingToSend \/ Deliver \/ PostSplit \/ PostSkip \/ SaveFailed \/ Crash
  <2>1. UNCHANGED <<slot, data, disk, accepted, passed>>
    BY <1>8 DEF StartScan, OpenView, EndPlace, ReadLine, NextView, NothingToRead, WaitForMore,
                NothingToSend, Deliver, EndScan, PostSplit, PostSkip, SaveFailed, Crash, logVars
  <2> QED BY <1>2, <2>1
<1>9. CASE UNCHANGED vars
  BY <1>2, <1>9 DEF vars, logVars, fwdVars
<1> QED BY <1>4, <1>5, <1>6, <1>7, <1>8, <1>9 DEF Next, StartService, FwdStep, FwdFault

\* The forwarder implements AtLeastOnce: the checkpoints on disk never pass an
\* event brainsrv was not given, and never go back on one the log still holds
\* unless a backfill is asked for, across rotations, crashes, failed saves and
\* restarts (forward.go Run, deliver, commit; state.go saveState).
THEOREM PromiseRefined == ~InodeReuse => (Spec => KeepsPromise)
<1> SUFFICES ASSUME ~InodeReuse PROVE Spec => KeepsPromise
  OBVIOUS
<1>1. Init => Promise!Init
  BY PromiseInit
<1>2. Sighted /\ [Next]_vars => [Promise!Next]_(Promise!vars)
  BY PromiseStep
<1>3. Spec => []Sighted
  BY SightedAlways
<1> QED BY <1>1, <1>2, <1>3, PTL DEF Spec, KeepsPromise, Promise!Spec

-----------------------------------------------------------------------------
(* What a crash makes the next process repeat, when saves do not fail.      *)

\* LineEvs of the units of a file.
LineOf(units, k) == {units[j].ev : j \in (Max({0} \cup {i \in 1..(k - 1) : units[i].nl}) + 1)..k}

LEMMA LineBegins ==
  ASSUME NEW units, NEW k \in Nat, k > 0
  PROVE  LET before == Max({0} \cup {i \in 1..(k - 1) : units[i].nl}) IN
         before \in 0..(k - 1) /\ units[k].ev \in LineOf(units, k)
<1> DEFINE S == {0} \cup {i \in 1..(k - 1) : units[i].nl}
           before == Max(S)
<1>1. k - 1 \in Nat /\ S \in SUBSET (0..(k - 1)) /\ S # {}
  OBVIOUS
<1> HIDE DEF S
<1>2. before \in 0..(k - 1)
  BY <1>1, MaxBounded
<1> HIDE DEF before
<1>3. k \in (before + 1)..k
  BY <1>2
<1>4. units[k].ev \in {units[j].ev : j \in (before + 1)..k}
  BY <1>3
<1> QED BY <1>2, <1>4 DEF LineOf, before, S

\* A line is not changed by what is written after it.
LEMMA LineKept ==
  ASSUME NEW s, NEW t, NEW k \in Nat, k > 0, \A j \in 1..k : t[j] = s[j]
  PROVE  LineOf(t, k) = LineOf(s, k)
<1> DEFINE before == Max({0} \cup {i \in 1..(k - 1) : s[i].nl})
<1>1. {i \in 1..(k - 1) : t[i].nl} = {i \in 1..(k - 1) : s[i].nl}
  OBVIOUS
<1>2. before \in 0..(k - 1)
  BY LineBegins
<1>3. LineOf(t, k) = {t[j].ev : j \in (before + 1)..k} /\ LineOf(s, k) = {s[j].ev : j \in (before + 1)..k}
  BY <1>1 DEF LineOf
<1> HIDE DEF before
<1>4. \A j \in (before + 1)..k : t[j].ev = s[j].ev
  BY <1>2
<1> QED BY <1>3, <1>4

\* The last newline before a line is where its reading begins.
LEMMA LineFrom ==
  ASSUME NEW units, NEW k \in Nat, NEW from \in Nat, from < k,
         from = 0 \/ units[from].nl, \A j \in (from + 1)..(k - 1) : ~units[j].nl
  PROVE  /\ \A j \in (from + 1)..k : units[j].ev \in LineOf(units, k)
         /\ \A ev \in LineOf(units, k) : \E j \in (from + 1)..k : ev = units[j].ev
<1> DEFINE S == {0} \cup {i \in 1..(k - 1) : units[i].nl}
<1>1. k - 1 \in Nat /\ S \in SUBSET (0..(k - 1)) /\ S # {} /\ from \in S
  OBVIOUS
<1>2. \A x \in S : x =< from
  OBVIOUS
<1> HIDE DEF S
<1>3. Max(S) \in S /\ \A x \in S : x =< Max(S)
  BY <1>1, MaxBounded
<1>4. Max(S) \in 0..(k - 1) /\ from =< Max(S) /\ Max(S) =< from
  BY <1>1, <1>2, <1>3
<1> DEFINE m == Max(S)
<1>5. m \in 0..(k - 1) /\ from =< m /\ m =< from
  BY <1>4
<1> HIDE DEF m
<1>6. m = from
  BY <1>5
<1>7. LineOf(units, k) = {units[j].ev : j \in (from + 1)..k}
  BY <1>6 DEF LineOf, S, m
<1> QED BY <1>7

LEMMA LineEvsIs ==
  ASSUME NEW f, NEW k
  PROVE  LineEvs(f, k) = LineOf(data[f], k)
BY DEF LineEvs, LineOf, LastLineEnd

\* LinesRead of a batch, checkpoints and contents.
LinesReadOf(b, files, content) ==
  \A m \in DOMAIN b :
    LET f == b[m].key  end == b[m].end IN
    /\ files[f] # NoCp
    /\ end \in 1..Len(content[f]) /\ content[f][end].nl /\ b[m].evs = LineOf(content[f], end)
    /\ b[m].kind = "data" \/ LineKind(LineOf(content[f], end)) # "data" \/ LineOf(content[f], end) \cap TooLarge # {}
    /\ \A k \in 1..end : content[f][k].nl =>
         k =< files[f].off \/ \E i \in 1..m : b[i].key = f /\ b[i].end = k

LEMMA LinesReadIs == LinesRead <=> LinesReadOf(batch, st.files, data)
BY LineEvsIs DEF LinesRead, LinesReadOf

LEMMA LinesReadNext == LinesRead' <=> LinesReadOf(batch', st'.files, data')
BY DEF LinesRead, LinesReadOf, LineEvs, LineOf, LastLineEnd

\* The bound, from the invariant: what would be repeated is in the part that is
\* committed, one line to an entry.
LEMMA RepeatsOnePart ==
  ASSUME Frugal, fpc \in {"commit", "save"}, NEW f \in Linked, NEW k \in Unsaved(f)
  PROVE  \E i \in PartData : batch[i].key = f /\ batch[i].end = k
<1>1. /\ Inductive /\ LogTypeOK /\ FwdTypeOK
      /\ Part \subseteq DOMAIN batch /\ f \in Inodes
  BY PartInBatch, RetainedType DEF Frugal, Sighted, Inductive, TypeOK
<1>2. /\ k \in DOMAIN data[f] /\ data[f][k].nl /\ LineKind(LineEvs(f, k)) = "data" /\ LineEvs(f, k) \subseteq accepted
      /\ (st.files[f] # NoCp /\ k =< st.files[f].off)
         \/ (fpc = "commit" /\ \E i \in PartData : batch[i].key = f /\ batch[i].end = k)
      /\ disk.files[f] = NoCp \/ disk.files[f].off < k
  BY DEF Unsaved, Answered
<1>3. k \in Nat /\ k > 0
  BY <1>1, <1>2 DEF LogTypeOK
<1>4. disk.files[f] # NoCp => disk.files[f].off \in Nat /\ ~(k =< disk.files[f].off)
  <2>1. disk.files[f] # NoCp => disk.files[f].off \in Nat
    BY <1>1 DEF FwdTypeOK, State, Checkpoint
  <2> QED BY <1>2, <1>3, <2>1
<1>5. CASE fpc = "commit"
  <2>1. NotBehind
    BY <1>5 DEF Frugal, BehindInv
  <2>2. ~(st.files[f] # NoCp /\ k =< st.files[f].off)
    <3> SUFFICES ASSUME st.files[f] # NoCp, k =< st.files[f].off PROVE FALSE
      OBVIOUS
    <3>1. st.files[f].off \in Nat
      BY <1>1 DEF FwdTypeOK, State, Checkpoint
    <3>2. st.files[f].off # 0
      BY <1>3, <3>1
    <3>3. disk.files[f] # NoCp /\ st.files[f].off =< disk.files[f].off
      BY <2>1, <3>2 DEF NotBehind
    <3>4. \A x, y, z \in Nat : x =< y /\ y =< z => x =< z
      OBVIOUS
    <3> QED BY <1>3, <1>4, <3>1, <3>3, <3>4
  <2> QED BY <1>2, <2>2
<1>6. CASE fpc = "save"
  <2>1. PICK i \in Part : batch[i].key = f /\ batch[i].end = k
    BY <1>2, <1>4, <1>6 DEF Frugal, BehindInv
  <2>2. i \in DOMAIN batch
    BY <1>1, <2>1
  <2>3. batch[i].kind = "data" \/ LineKind(LineEvs(f, k)) # "data" \/ LineEvs(f, k) \cap TooLarge # {}
    BY <2>1, <2>2 DEF Frugal, LinesRead
  <2>4. batch[i].kind = "data"
    BY <1>2, <2>3 DEF Frugal, FirstRunSaved
  <2>5. i \in PartData
    BY <2>1, <2>4 DEF PartData, DataLines, Part
  <2> QED BY <2>1, <2>5
<1> QED BY <1>5, <1>6

LEMMA RepeatsNothing ==
  ASSUME Frugal, fpc \notin {"commit", "save"}, NEW f \in Linked
  PROVE  Unsaved(f) = {}
<1> SUFFICES ASSUME NEW k \in Unsaved(f) PROVE FALSE
  OBVIOUS
<1>1. Inductive /\ LogTypeOK /\ FwdTypeOK /\ f \in Inodes
  BY RetainedType DEF Frugal, Sighted, Inductive, TypeOK
<1>2. /\ k \in DOMAIN data[f] /\ LineEvs(f, k) \subseteq accepted
      /\ st.files[f] # NoCp /\ k =< st.files[f].off
      /\ disk.files[f] = NoCp \/ disk.files[f].off < k
  BY DEF Unsaved, Answered
<1>3. k \in Nat /\ k > 0
  BY <1>1, <1>2 DEF LogTypeOK
<1>4. accepted # {}
  BY <1>2, <1>3, LineEvsIs, LineBegins
<1>5. st.files[f].off \in Nat /\ (disk.files[f] # NoCp => disk.files[f].off \in Nat)
  BY <1>1, <1>2 DEF FwdTypeOK, State, Checkpoint
<1>6. NotBehind
  BY <1>4 DEF Frugal, BehindInv
<1>7. disk.files[f] # NoCp /\ st.files[f].off =< disk.files[f].off
  <2>1. st.files[f].off # 0
    BY <1>2, <1>3, <1>5
  <2> QED BY <1>2, <1>6, <2>1 DEF NotBehind
<1> QED BY <1>2, <1>3, <1>5, <1>7

LEMMA RepeatsOneBatch ==
  ASSUME Frugal, unsaved = 0
  PROVE  ResendsOneBatch
<1>1. /\ Inductive /\ batch \in Seq(Entry) /\ Len(batch) \in Nat /\ MaxLines \in Nat
      /\ Cardinality(DataLines(1, Len(batch))) =< MaxLines
  BY LimitsAssumption DEF Frugal, Sighted, Inductive, TypeOK, FwdTypeOK, BatchBound
<1>3. CASE fpc \notin {"commit", "save"}
  <2>1. ToRepeat = {}
    BY <1>3, RepeatsNothing DEF ToRepeat
  <2>2. Cardinality(ToRepeat) = 0 /\ BatchesUnsaved = 0
    BY <1>3, <2>1, FS_EmptySet DEF BatchesUnsaved
  <2> QED BY <1>1, <2>2 DEF ResendsOneBatch
<1>4. CASE fpc \in {"commit", "save"}
  <2> DEFINE D == DataLines(1, Len(batch))
             g == [i \in PartData |-> <<batch[i].key, batch[i].end>>]
             T == {g[i] : i \in PartData}
  <2>1. PartData \subseteq D
    <3>1. PartData \subseteq Part /\ Part \subseteq DOMAIN batch
      BY <1>1, <1>4, PartInBatch
    <3>2. DOMAIN batch = 1..Len(batch)
      BY <1>1
    <3> QED BY <3>1, <3>2 DEF PartData, DataLines
  <2>2. IsFiniteSet(D) /\ Cardinality(D) \in Nat
    <3>1. IsFiniteSet(1..Len(batch)) /\ D \subseteq 1..Len(batch)
      BY <1>1, FS_Interval DEF DataLines
    <3> HIDE DEF D
    <3>2. IsFiniteSet(D)
      BY <3>1, FS_Subset
    <3> QED BY <3>2, FS_CardinalityType
  <2> HIDE DEF D
  <2>3. IsFiniteSet(PartData) /\ Cardinality(PartData) \in Nat /\ Cardinality(PartData) =< Cardinality(D)
    BY <2>1, <2>2, FS_Subset, FS_CardinalityType
  <2>4. g \in Surjection(PartData, T)
    BY DEF Surjection
  <2>5. ToRepeat \subseteq T
    <3> SUFFICES ASSUME NEW f \in Linked, NEW k \in Unsaved(f) PROVE <<f, k>> \in T
      BY DEF ToRepeat
    <3>1. PICK i \in PartData : batch[i].key = f /\ batch[i].end = k
      BY <1>4, RepeatsOnePart
    <3> QED BY <3>1
  <2> HIDE DEF g, T
  <2>6. IsFiniteSet(T) /\ Cardinality(T) \in Nat /\ Cardinality(T) =< Cardinality(PartData)
    BY <2>3, <2>4, FS_Surjection, FS_CardinalityType
  <2>7. Cardinality(ToRepeat) \in Nat /\ Cardinality(ToRepeat) =< Cardinality(T)
    BY <2>5, <2>6, FS_Subset, FS_CardinalityType
  <2>8. \A a, b, c, d, e \in Nat : a =< b /\ b =< c /\ c =< d /\ d =< e => a =< e
    OBVIOUS
  <2>9. Cardinality(ToRepeat) =< MaxLines
    BY <1>1, <2>2, <2>3, <2>6, <2>7, <2>8 DEF D
  <2>10. BatchesUnsaved = 1
    BY <1>4 DEF BatchesUnsaved
  <2> QED BY <1>1, <2>9, <2>10 DEF ResendsOneBatch
<1> QED BY <1>3, <1>4

-----------------------------------------------------------------------------
(* Its steps.                                                               *)

LEMMA LinesStill ==
  ASSUME LinesRead, batch \in Seq(Entry), st \in State, st' \in State, data \in [Inodes -> Seq(Unit)],
         data' \in [Inodes -> Seq(Unit)],
         DOMAIN batch' = DOMAIN batch,
         \A i \in DOMAIN batch : /\ batch'[i].key = batch[i].key /\ batch'[i].end = batch[i].end
                                 /\ batch'[i].evs = batch[i].evs
                                 /\ batch'[i].kind = batch[i].kind \/ batch[i].evs \cap TooLarge # {},
         \A f \in Inodes : st.files[f] # NoCp => st'.files[f] # NoCp /\ st.files[f].off =< st'.files[f].off,
         \A f \in Inodes : /\ Len(data[f]) =< Len(data'[f])
                           /\ \A j \in 1..Len(data[f]) : data'[f][j] = data[f][j]
  PROVE  LinesRead'
<1> SUFFICES ASSUME NEW m \in DOMAIN batch
             PROVE  LET f == batch'[m].key  end == batch'[m].end IN
                    /\ st'.files[f] # NoCp
                    /\ end \in 1..Len(data'[f]) /\ data'[f][end].nl /\ batch'[m].evs = LineOf(data'[f], end)
                    /\ \/ batch'[m].kind = "data" \/ LineKind(LineOf(data'[f], end)) # "data"
                       \/ LineOf(data'[f], end) \cap TooLarge # {}
                    /\ \A k \in 1..end : data'[f][k].nl =>
                         k =< st'.files[f].off \/ \E i \in 1..m : batch'[i].key = f /\ batch'[i].end = k
  BY LinesReadNext DEF LinesReadOf
<1> DEFINE f == batch[m].key
           end == batch[m].end
<1>1. f \in Inodes
  <2>1. batch[m] \in Entry
    OBVIOUS
  <2> QED BY <2>1 DEF Entry
<1>2. /\ st.files[f] # NoCp
      /\ end \in 1..Len(data[f]) /\ data[f][end].nl /\ batch[m].evs = LineOf(data[f], end)
      /\ batch[m].kind = "data" \/ LineKind(LineOf(data[f], end)) # "data" \/ LineOf(data[f], end) \cap TooLarge # {}
      /\ \A k \in 1..end : data[f][k].nl =>
           k =< st.files[f].off \/ \E i \in 1..m : batch[i].key = f /\ batch[i].end = k
  BY LinesReadIs DEF LinesReadOf
<1>3. st'.files[f] # NoCp /\ st.files[f].off =< st'.files[f].off
      /\ st.files[f].off \in Nat /\ st'.files[f].off \in Nat
  BY <1>1, <1>2 DEF State, Checkpoint
<1>4. /\ Len(data[f]) =< Len(data'[f]) /\ \A j \in 1..Len(data[f]) : data'[f][j] = data[f][j]
      /\ Len(data[f]) \in Nat /\ Len(data'[f]) \in Nat
  BY <1>1
<1>5. /\ batch'[m].key = f /\ batch'[m].end = end /\ batch'[m].evs = batch[m].evs
      /\ batch'[m].kind = batch[m].kind \/ batch[m].evs \cap TooLarge # {}
      /\ \A i \in 1..m : batch'[i].key = batch[i].key /\ batch'[i].end = batch[i].end
  <2>1. \A i \in 1..m : i \in DOMAIN batch
    OBVIOUS
  <2> QED BY <2>1
<1> HIDE DEF f, end
<1>6. /\ end \in Nat /\ end > 0 /\ end \in 1..Len(data'[f])
      /\ \A j \in 1..end : j \in 1..Len(data[f]) /\ data'[f][j] = data[f][j]
  BY <1>2, <1>4
<1>7. LineOf(data'[f], end) = LineOf(data[f], end)
  BY <1>6, LineKept
<1>8. \A k \in 1..end : data'[f][k].nl =>
        k =< st'.files[f].off \/ \E i \in 1..m : batch[i].key = f /\ batch[i].end = k
  <2> TAKE k \in 1..end
  <2> HAVE data'[f][k].nl
  <2>1. k =< st.files[f].off \/ \E i \in 1..m : batch[i].key = f /\ batch[i].end = k
    BY <1>2, <1>6
  <2>2. k \in Nat
    BY <1>6
  <2>3. \A x, y, z \in Nat : x =< y /\ y =< z => x =< z
    OBVIOUS
  <2> QED BY <1>3, <2>1, <2>2, <2>3
<1>9. data'[f][end].nl
  BY <1>2, <1>6
<1> QED BY <1>2, <1>3, <1>5, <1>6, <1>7, <1>8, <1>9 DEF f, end

LEMMA NoLines ==
  ASSUME batch' = <<>>
  PROVE  LinesRead' /\ Cardinality(DataLines(1, Len(batch)))' =< MaxLines
<1>1. LinesRead'
  <2>1. LinesReadOf(batch', st'.files, data')
    BY DEF LinesReadOf
  <2> QED BY <2>1, LinesReadNext
<1>2. {i \in 1..Len(batch') : batch'[i].kind = "data"} = {}
  OBVIOUS
<1>3. MaxLines \in Nat /\ Cardinality({}) = 0
  BY LimitsAssumption, FS_EmptySet
<1> QED BY <1>1, <1>2, <1>3 DEF DataLines

LEMMA FrugalFacts ==
  ASSUME Frugal
  PROVE  /\ Inductive /\ LogTypeOK /\ FwdTypeOK /\ st \in State /\ disk \in State
         /\ batch \in Seq(Entry) /\ data \in [Inodes -> Seq(Unit)] /\ Linked \subseteq Inodes
         /\ \A f \in Inodes : st.files[f] # NoCp => st.files[f].off \in Nat /\ f \in used
         /\ \A f \in Inodes : disk.files[f] # NoCp => disk.files[f].off \in Nat
         /\ LinesRead /\ BatchBound /\ FirstRunSaved /\ BehindInv
<1>1. Inductive /\ LogTypeOK /\ FwdTypeOK /\ LinesRead /\ BatchBound /\ FirstRunSaved /\ BehindInv
  BY DEF Frugal, Sighted, Inductive, TypeOK
<1>2. st \in State /\ disk \in State /\ batch \in Seq(Entry) /\ data \in [Inodes -> Seq(Unit)]
  BY <1>1 DEF FwdTypeOK, LogTypeOK
<1>3. \A f \in Inodes : st.files[f] # NoCp => f \in used
  BY DEF Frugal, Sighted, Kept
<1> QED BY <1>1, <1>2, <1>3, RetainedType DEF State, Checkpoint

LEMMA FrugalInit == Init => Frugal
<1> SUFFICES ASSUME Init PROVE Frugal
  OBVIOUS
<1>1. /\ Sighted /\ fpc = "down" /\ batch = <<>> /\ accepted = {} /\ st = Fresh /\ disk = Fresh
  BY SightedInit DEF Init, FwdInit
<1>2. LinesRead
  BY <1>1 DEF LinesRead
<1>3. Cardinality(DataLines(1, Len(batch))) =< MaxLines
  <2>1. DataLines(1, Len(batch)) = {}
    BY <1>1 DEF DataLines
  <2> QED BY <2>1, LimitsAssumption, FS_EmptySet
<1>4. NotBehind
  <2>1. Linked \subseteq Inodes
    BY <1>1, RetainedType DEF Sighted, Inductive, TypeOK
  <2> QED BY <1>1, <2>1 DEF NotBehind, Fresh
<1> QED BY <1>1, <1>2, <1>3, <1>4 DEF Frugal, BatchBound, FirstRunSaved, BehindInv

LEMMA FrugalWriters ==
  ASSUME Frugal, ~InodeReuse, Writers, Sighted'
  PROVE  Frugal'
<1>1. /\ Inductive /\ LogTypeOK /\ FwdTypeOK /\ st \in State /\ Linked \subseteq Inodes
      /\ batch \in Seq(Entry) /\ data \in [Inodes -> Seq(Unit)]
      /\ \A f \in Inodes : st.files[f] # NoCp => st.files[f].off \in Nat /\ f \in used
      /\ LinesRead /\ BatchBound /\ FirstRunSaved /\ BehindInv /\ FilesInv
  BY FrugalFacts DEF Inductive
<1>2. WriterNext(ViewKeys) /\ UNCHANGED <<fpc, run, st, disk, batch, cuts, sent, accepted>>
  BY DEF Writers, fwdVars
<1>3. LogMoves
  BY <1>1, <1>2, WritersMove
<1>4. data' \in [Inodes -> Seq(Unit)] /\ Linked' \subseteq Inodes
  BY DEF Sighted, Inductive, TypeOK, LogTypeOK, Linked
<1>5. LinesRead'
  <2>1. \A f \in Inodes : st.files[f] # NoCp => st'.files[f] # NoCp /\ st.files[f].off =< st'.files[f].off
    BY <1>1, <1>2
  <2>2. st' \in State
    BY <1>1, <1>2
  <2> QED BY <1>1, <1>2, <1>3, <1>4, <2>1, <2>2, LinesStill DEF LogMoves
<1>6. BatchBound' /\ FirstRunSaved'
  BY <1>1, <1>2 DEF BatchBound, FirstRunSaved, DataLines
<1>7. \A f \in Linked' : st.files[f] # NoCp => f \in Linked
  BY <1>1, <1>3, <1>4, LinkedWere
<1>8. BehindInv'
  <2>1. CASE fpc = "save"
    <3> SUFFICES ASSUME NEW f \in Linked', NEW k \in DOMAIN data'[f],
                        st.files[f] # NoCp, k =< st.files[f].off, data'[f][k].nl
                 PROVE  \/ disk.files[f] # NoCp /\ k =< disk.files[f].off
                        \/ \E i \in Part : batch[i].key = f /\ batch[i].end = k
      BY <1>2, <2>1 DEF BehindInv, Part
    <3>1. f \in Linked /\ f \in Inodes
      BY <1>4, <1>7
    <3>2. st.files[f].off =< Len(data[f]) /\ st.files[f].off \in Nat
      BY <1>1, <3>1 DEF Inductive, CheckpointsCovered, Covered
    <3>3. k \in 1..Len(data[f]) /\ DOMAIN data[f] = 1..Len(data[f])
      <4>1. k \in Nat /\ k > 0 /\ Len(data[f]) \in Nat
        BY <1>1, <1>4, <3>1
      <4> QED BY <1>1, <3>1, <3>2, <4>1
    <3>4. data'[f][k] = data[f][k]
      BY <1>3, <3>1, <3>3 DEF LogMoves
    <3> QED BY <1>1, <2>1, <3>1, <3>3, <3>4 DEF BehindInv
  <2>2. CASE fpc # "save"
    BY <1>1, <1>2, <1>7, <2>2 DEF BehindInv, NotBehind
  <2> QED BY <2>1, <2>2
<1> QED BY <1>5, <1>6, <1>8 DEF Frugal

LEMMA FrugalStart ==
  ASSUME Frugal, NEW r, Start(r), Sighted'
  PROVE  Frugal'
<1>1. /\ fpc = "down" /\ fpc' = "open" /\ run' = r /\ st' = (IF r.backfill THEN Fresh ELSE disk)
      /\ UNCHANGED <<slot, disk, batch, accepted>>
  BY DEF Start, logVars
<1>2. /\ BatchBound /\ FirstRunSaved /\ Linked \subseteq Inodes
      /\ \A f \in Inodes : disk.files[f] # NoCp => disk.files[f].off \in Nat
  BY FrugalFacts
<1>3. LinesRead' /\ BatchBound'
  BY <1>1, <1>2, NoLines DEF BatchBound
<1>4. FirstRunSaved'
  BY <1>1, <1>2 DEF FirstRunSaved, Fresh
<1>5. NotBehind'
  <2>1. \A f \in Linked : disk.files[f] # NoCp => disk.files[f].off =< disk.files[f].off
    BY <1>2
  <2> QED BY <1>1, <1>2, <2>1 DEF NotBehind, Linked, Fresh
<1> QED BY <1>1, <1>3, <1>4, <1>5 DEF Frugal, BehindInv

\* Back to idle or down: no batch is left, and the disk is where memory is.
LEMMA FrugalRest ==
  ASSUME Frugal, ~SaveFails, Sighted',
         EndPlace \/ NothingToRead \/ WaitForMore \/ PostFails \/ SaveFailed \/ Crash \/ (Save /\ Len(cuts) = 1)
  PROVE  Frugal'
<1>1. /\ BatchBound /\ FirstRunSaved /\ BehindInv /\ st \in State /\ Linked \subseteq Inodes
      /\ \A f \in Inodes : st.files[f] # NoCp => st.files[f].off \in Nat
  BY FrugalFacts
<1>2. /\ slot' = slot /\ batch' = <<>>
      /\ \/ fpc' = "down" /\ st' = Fresh /\ disk' = disk
         \/ fpc' = "idle" /\ st' = st /\ fpc \in {"read", "post", "save"} /\ disk' = (IF fpc = "save" THEN st ELSE disk)
  <2>1. CASE EndPlace \/ NothingToRead \/ WaitForMore \/ PostFails \/ Crash
    <3>1. /\ slot' = slot /\ disk' = disk
          /\ Halt \/ (Rest /\ st' = st /\ fpc \in {"read", "post"})
      BY <2>1 DEF EndPlace, NothingToRead, WaitForMore, EndScan, PostFails, Crash, GiveUp, logVars
    <3> QED BY <3>1 DEF Halt, Rest
  <2>2. CASE Save /\ Len(cuts) = 1
    BY <2>2 DEF Save, Rest, logVars
  <2> QED BY <2>1, <2>2 DEF SaveFailed
<1>3. LinesRead' /\ BatchBound'
  BY <1>2, NoLines DEF BatchBound
<1>4. accepted' = accepted \/ (fpc = "post" /\ accepted' = accepted \cup PartLines /\ PartLines \cap TooLarge = {})
  <2>1. CASE EndPlace \/ NothingToRead \/ WaitForMore \/ Crash \/ Save
    BY <2>1 DEF EndPlace, NothingToRead, WaitForMore, EndScan, Crash, Save
  <2>2. CASE PostFails
    BY <2>2 DEF PostFails, Refused
  <2> QED BY <2>1, <2>2 DEF SaveFailed
<1>5. FirstRunSaved'
  BY <1>1, <1>2, <1>4 DEF FirstRunSaved
<1>6. NotBehind'
  <2>1. Linked' = Linked
    BY <1>2 DEF Linked
  <2>2. CASE st' = Fresh
    BY <1>1, <2>1, <2>2 DEF NotBehind, Fresh
  <2>3. CASE st' = st /\ disk' = st
    <3>1. \A f \in Linked : st.files[f] # NoCp => st.files[f].off =< st.files[f].off
      BY <1>1
    <3> QED BY <2>1, <2>3, <3>1 DEF NotBehind
  <2>4. CASE st' = st /\ disk' = disk /\ fpc \in {"read", "post"}
    BY <1>1, <2>1, <2>4 DEF BehindInv, NotBehind
  <2> QED BY <1>2, <2>2, <2>3, <2>4
<1> QED BY <1>2, <1>3, <1>5, <1>6 DEF Frugal, BehindInv

LEMMA FrugalLooks ==
  ASSUME Frugal, Sighted', StartScan \/ OpenView
  PROVE  Frugal'
<1>1. BatchBound /\ FirstRunSaved /\ BehindInv
  BY FrugalFacts
<1>2. /\ UNCHANGED <<slot, st, disk, batch, run, accepted>>
      /\ \/ fpc = "idle" /\ fpc' = "open"
         \/ fpc = "open" /\ fpc' \in {"open", "reconcile"}
  BY DEF StartScan, OpenView, logVars
<1>3. LinesRead' /\ BatchBound'
  BY <1>1, <1>2, NoLines DEF BatchBound
<1>4. FirstRunSaved' /\ BehindInv'
  BY <1>1, <1>2 DEF FirstRunSaved, BehindInv, NotBehind, Linked
<1> QED BY <1>3, <1>4 DEF Frugal

LEMMA FrugalPersist ==
  ASSUME Frugal, Sighted', Persist
  PROVE  Frugal'
<1>1. /\ BatchBound /\ FirstRunSaved /\ Linked \subseteq Inodes
      /\ \A f \in Inodes : st.files[f] # NoCp => st.files[f].off \in Nat
  BY FrugalFacts
<1>2. /\ UNCHANGED <<slot, st, batch, run, accepted>> /\ disk' = st
      /\ fpc = "persist" /\ fpc' = "read"
  BY DEF Persist, logVars
<1>3. LinesRead' /\ BatchBound'
  BY <1>1, <1>2, NoLines DEF BatchBound
<1>4. FirstRunSaved'
  BY <1>1, <1>2 DEF FirstRunSaved
<1>5. NotBehind'
  <2>1. \A f \in Linked : st.files[f] # NoCp => st.files[f].off =< st.files[f].off
    BY <1>1
  <2> QED BY <1>2, <2>1 DEF NotBehind, Linked
<1> QED BY <1>2, <1>3, <1>4, <1>5 DEF Frugal, BehindInv

LEMMA FrugalReading ==
  ASSUME Frugal, Sighted', NextView \/ NothingToSend \/ Deliver
  PROVE  Frugal'
<1>1. /\ BatchBound /\ FirstRunSaved /\ BehindInv /\ LinesRead /\ Inductive
      /\ st \in State /\ batch \in Seq(Entry) /\ data \in [Inodes -> Seq(Unit)]
      /\ \A f \in Inodes : st.files[f] # NoCp => st.files[f].off \in Nat
  BY FrugalFacts
<1>2. /\ UNCHANGED <<slot, data, st, disk, batch, sent, accepted>>
      /\ fpc = "read" /\ fpc' \in {"read", "commit", "post"}
  BY DEF NextView, NothingToSend, Deliver, EndScan, logVars
<1>3. LinesRead'
  <2>1. \A f \in Inodes : Len(data[f]) =< Len(data[f]) /\ \A x \in Nat : x =< x
    BY <1>1
  <2> QED BY <1>1, <1>2, <2>1, LinesStill
<1>4. BatchBound'
  <2>1. sent = 0
    BY <1>1, <1>2 DEF Inductive, SentInv
  <2>2. \A m \in DOMAIN batch : ~(m =< 0)
    BY <1>1
  <2> QED BY <1>1, <1>2, <2>1, <2>2 DEF BatchBound, DataLines
<1>5. FirstRunSaved' /\ BehindInv'
  BY <1>1, <1>2 DEF FirstRunSaved, BehindInv, NotBehind, Linked
<1> QED BY <1>3, <1>4, <1>5 DEF Frugal

LEMMA FrugalPost ==
  ASSUME Frugal, Sighted', PostOK \/ PostSplit \/ PostSkip
  PROVE  Frugal'
<1>1. /\ BatchBound /\ FirstRunSaved /\ BehindInv /\ LinesRead /\ Inductive
      /\ st \in State /\ batch \in Seq(Entry) /\ data \in [Inodes -> Seq(Unit)]
      /\ \A f \in Inodes : st.files[f] # NoCp => st.files[f].off \in Nat
  BY FrugalFacts
<1>2. /\ UNCHANGED <<slot, data, st, disk, sent>>
      /\ fpc = "post" /\ fpc' \in {"commit", "post"}
      /\ accepted' = accepted \/ (accepted' = accepted \cup PartLines /\ PartLines \cap TooLarge = {})
  BY DEF PostOK, PostSplit, PostSkip, Refused, logVars
<1>3. /\ DOMAIN batch' = DOMAIN batch
      /\ \A i \in DOMAIN batch : /\ batch'[i].key = batch[i].key /\ batch'[i].end = batch[i].end
                                 /\ batch'[i].evs = batch[i].evs
                                 /\ batch'[i].kind = batch[i].kind
                                    \/ (batch[i].evs \cap TooLarge # {} /\ batch'[i].kind = "skipped")
  <2>1. CASE batch' = batch
    BY <2>1
  <2>2. CASE PostSkip
    <3> DEFINE skip(i) == [batch[i] EXCEPT !.kind = "skipped"]
    <3>1. /\ batch' = [i \in DOMAIN batch |-> IF i \in PartData THEN skip(i) ELSE batch[i]]
          /\ Refused /\ Cardinality(PartData) = 1
      BY <2>2 DEF PostSkip
    <3>2. \A i \in DOMAIN batch : batch[i] \in Entry
      BY <1>1
    <3>3. \A i \in DOMAIN batch : /\ skip(i).key = batch[i].key /\ skip(i).end = batch[i].end
                                  /\ skip(i).evs = batch[i].evs /\ skip(i).kind = "skipped"
      BY <3>2 DEF Entry
    <3> HIDE DEF skip
    <3>4. PartLines \cap TooLarge # {}
      BY <3>1, LimitsAssumption DEF Refused
    <3>5. PartData \subseteq DOMAIN batch
      BY <1>1, <1>2, PartInBatch
    <3>6. \E x : PartData = {x}
      <4>1. DOMAIN batch = 1..Len(batch) /\ 1 \in Int /\ Len(batch) \in Int
        BY <1>1
      <4>2. IsFiniteSet(PartData)
        BY <3>5, <4>1, FS_Interval, FS_Subset
      <4> QED BY <3>1, <4>2, FS_Singleton
    <3>7. \A i \in PartData : batch[i].evs \cap TooLarge # {}
      BY <3>4, <3>6 DEF PartLines
    <3>8. DOMAIN batch' = DOMAIN batch
      BY <3>1
    <3>9. ASSUME NEW i \in DOMAIN batch
          PROVE  /\ batch'[i].key = batch[i].key /\ batch'[i].end = batch[i].end /\ batch'[i].evs = batch[i].evs
                 /\ batch'[i].kind = batch[i].kind \/ (batch[i].evs \cap TooLarge # {} /\ batch'[i].kind = "skipped")
      <4>1. batch'[i] = IF i \in PartData THEN skip(i) ELSE batch[i]
        BY <3>1
      <4>2. CASE i \in PartData
        <5>1. batch'[i] = skip(i)
          BY <4>1, <4>2
        <5> QED BY <3>3, <3>7, <4>2, <5>1
      <4>3. CASE i \notin PartData
        BY <4>1, <4>3
      <4> QED BY <4>2, <4>3
    <3> QED BY <3>8, <3>9
  <2> QED BY <2>1, <2>2 DEF PostOK, PostSplit
<1>4. LinesRead'
  <2>1. \A f \in Inodes : Len(data[f]) =< Len(data[f]) /\ \A x \in Nat : x =< x
    BY <1>1
  <2> QED BY <1>1, <1>2, <1>3, <2>1, LinesStill
<1>5. Cardinality(DataLines(1, Len(batch)))' =< MaxLines
  <2> DEFINE D == {i \in 1..Len(batch) : batch[i].kind = "data"}
             E == {i \in 1..Len(batch') : batch'[i].kind = "data"}
  <2>1. DOMAIN batch = 1..Len(batch) /\ DOMAIN batch' = 1..Len(batch') /\ Len(batch) \in Nat
    <3>1. batch' \in Seq(Entry)
      BY DEF Sighted, Inductive, TypeOK, FwdTypeOK
    <3> QED BY <1>1, <3>1
  <2>2. E \subseteq D
    BY <1>3, <2>1
  <2>3. Cardinality(D) =< MaxLines /\ MaxLines \in Nat
    BY <1>1, LimitsAssumption DEF BatchBound, DataLines
  <2>4. D \subseteq 1..Len(batch) /\ IsFiniteSet(1..Len(batch))
    BY <2>1, FS_Interval
  <2> HIDE DEF D, E
  <2>5. IsFiniteSet(D) /\ Cardinality(D) \in Nat
    BY <2>4, FS_Subset, FS_CardinalityType
  <2>6. Cardinality(E) \in Nat /\ Cardinality(E) =< Cardinality(D)
    BY <2>2, <2>5, FS_Subset, FS_CardinalityType
  <2>7. \A x, y, z \in Nat : x =< y /\ y =< z => x =< z
    OBVIOUS
  <2>8. Cardinality(E) =< MaxLines
    BY <2>3, <2>5, <2>6, <2>7
  <2> QED BY <2>8 DEF DataLines, E
<1>6. BatchBound'
  BY <1>1, <1>2, <1>3, <1>5 DEF BatchBound
<1>7. FirstRunSaved' /\ BehindInv'
  BY <1>1, <1>2 DEF FirstRunSaved, BehindInv, NotBehind, Linked
<1> QED BY <1>4, <1>6, <1>7 DEF Frugal

LEMMA FrugalReconcile ==
  ASSUME Frugal, Sighted', Reconcile
  PROVE  Frugal'
<1>1. /\ BatchBound /\ FirstRunSaved /\ BehindInv /\ FwdTypeOK /\ Linked \subseteq Inodes /\ Sighted
      /\ st \in State
  BY FrugalFacts DEF Frugal
<1>2. /\ UNCHANGED <<slot, disk, batch, run, accepted>> /\ st' = Reconciled
      /\ fpc = "reconcile" /\ fpc' = (IF Reconciled # st THEN "persist" ELSE "read")
  BY DEF Reconcile, logVars
<1>3. LinesRead' /\ BatchBound'
  BY <1>1, <1>2, NoLines DEF BatchBound
<1>4. st'.init /\ Linked' = Linked /\ NotBehind
  BY <1>1, <1>2 DEF Reconciled, Linked, BehindInv
<1>5. FirstRunSaved'
  BY <1>1, <1>2, <1>4 DEF FirstRunSaved
<1>6. CASE FirstRun
  <2>1. fpc' = "persist" /\ accepted' = {}
    BY <1>1, <1>2, <1>4, <1>6 DEF FirstRun, FirstRunSaved
  <2> QED BY <1>3, <1>5, <2>1 DEF Frugal, BehindInv
<1>7. CASE ~FirstRun
  <2>1. ASSUME NEW f \in Inodes, f \in ViewKeys
        PROVE  st'.files[f].off = 0 \/ (st.files[f] # NoCp /\ st'.files[f].off = st.files[f].off)
    <3> DEFINE V == {views[i] : i \in DOMAIN views}
               v == CHOOSE x \in V : x.key = f
    <3>1. v \in V /\ v.key = f
      BY <2>1 DEF ViewKeys
    <3>2. PICK i \in DOMAIN views : views[i] = v
      BY <3>1
    <3>3. st'.files[f] = Placed(v)
      BY <1>2, <2>1 DEF Reconciled
    <3> HIDE DEF v
    <3>4. st.files[f] # NoCp => Placed(v).off = st.files[f].off
      BY <1>1, <1>2, <3>1, <3>2, PlacedKept
    <3>5. st.files[f] = NoCp => Placed(v).off = 0
      <4> SUFFICES ASSUME st.files[f] = NoCp PROVE Placed(v).off = 0
        OBVIOUS
      <4>1. FirstOffset(v) = 0
        BY <1>7 DEF FirstOffset
      <4> QED BY <3>1, <4>1 DEF Placed
    <3> QED BY <3>3, <3>4, <3>5
  <2>2. ASSUME NEW f \in Inodes, f \notin ViewKeys, st'.files[f] # NoCp
        PROVE  st.files[f] # NoCp /\ st'.files[f].off = st.files[f].off
    <3>1. st.files[f] # NoCp /\ st.files[f] \in Checkpoint /\ st'.files[f] = [st.files[f] EXCEPT !.missing = @ + 1]
      BY <1>1, <1>2, <2>2 DEF Reconciled, NotFound, State
    <3> QED BY <3>1 DEF Checkpoint
  <2>3. NotBehind'
    BY <1>1, <1>2, <1>4, <2>1, <2>2 DEF NotBehind
  <2>4. fpc' # "save"
    BY <1>2
  <2> QED BY <1>3, <1>5, <2>3, <2>4 DEF Frugal, BehindInv
<1> QED BY <1>6, <1>7

LEMMA FrugalSave ==
  ASSUME Frugal, Sighted', Save, Len(cuts) # 1
  PROVE  Frugal'
<1>1. /\ BatchBound /\ FirstRunSaved /\ LinesRead
      /\ st \in State /\ batch \in Seq(Entry) /\ data \in [Inodes -> Seq(Unit)] /\ Linked \subseteq Inodes
      /\ \A f \in Inodes : st.files[f] # NoCp => st.files[f].off \in Nat
  BY FrugalFacts
<1>2. /\ UNCHANGED <<slot, data, st, batch, run, accepted>> /\ disk' = st
      /\ fpc = "save" /\ fpc' = "post" /\ sent' = Head(cuts)
  BY DEF Save, logVars
<1>3. LinesRead'
  <2>1. \A f \in Inodes : Len(data[f]) =< Len(data[f]) /\ \A x \in Nat : x =< x
    BY <1>1
  <2> QED BY <1>1, <1>2, <2>1, LinesStill
<1>4. BatchBound'
  BY <1>1, <1>2 DEF BatchBound, DataLines
<1>5. FirstRunSaved'
  BY <1>1, <1>2 DEF FirstRunSaved
<1>6. NotBehind'
  <2>1. \A f \in Linked : st.files[f] # NoCp => st.files[f].off =< st.files[f].off
    BY <1>1
  <2> QED BY <1>2, <2>1 DEF NotBehind, Linked
<1> QED BY <1>2, <1>3, <1>4, <1>5, <1>6 DEF Frugal, BehindInv

\* What a scan reads next: one whole line, from where it was in the file.
LEMMA NextLine ==
  ASSUME Inductive, ReadLine
  PROVE  \E f \in Inodes, from \in Nat, end \in Nat, e \in Entry :
           /\ end \in 1..Len(data[f]) /\ from = ReadFrom(Head(views)) /\ Head(views).key = f /\ st.files[f] # NoCp
           /\ from < end /\ (from = 0 \/ data[f][from].nl)
           /\ data[f][end].nl /\ \A j \in (from + 1)..(end - 1) : ~data[f][j].nl
           /\ e.key = f /\ e.end = end /\ e.evs = {data[f][j].ev : j \in (from + 1)..end}
           /\ e.kind = LineKind(e.evs) /\ batch' = Append(batch, e)
<1> DEFINE v == Head(views)
           f == v.key
           from == ReadFrom(v)
           len == Len(batch)
<1>1. LogTypeOK /\ FwdTypeOK /\ ViewsInv /\ fpc = "read" /\ views # <<>>
  BY DEF Inductive, TypeOK, ReadLine
<1>2. PICK end \in (from + 1)..v.size :
        /\ data[f][end].nl /\ \A j \in (from + 1)..(end - 1) : ~data[f][j].nl
        /\ LET evs == {data[f][j].ev : j \in (from + 1)..end}
           IN  batch' = Append(batch, [key |-> f, end |-> end, evs |-> evs,
                                       kind |-> LineKind(evs)])
  BY DEF ReadLine
<1> DEFINE evs == {data[f][j].ev : j \in (from + 1)..end}
           e == [key |-> f, end |-> end, evs |-> evs, kind |-> LineKind(evs)]
<1>3. /\ f \in Inodes /\ v.size \in Nat /\ v.size =< Len(data[f]) /\ st.files[f] # NoCp
      /\ data[f] \in Seq(Unit)
  <2>1. views \in Seq(View) /\ v = views[1] /\ 1 \in DOMAIN views
    BY <1>1 DEF FwdTypeOK
  <2> HIDE DEF v
  <2>2. f \in Inodes /\ v.size \in Nat
    BY <1>1, <2>1, Elements
  <2> QED BY <1>1, <2>1, <2>2 DEF ViewsInv, LogTypeOK
<1>4. batch \in Seq(Entry) /\ len \in Nat /\ DOMAIN batch = 1..len
  BY <1>1 DEF FwdTypeOK
<1>5. from \in Nat /\ (from = 0 \/ data[f][from].nl)
  <2>1. CASE batch # <<>> /\ batch[len].key = f
    <3>1. from = batch[len].end /\ len \in DOMAIN batch
      BY <1>4, <2>1 DEF ReadFrom
    <3>2. Covered(data[f], from, Settled \cup EvsUpTo(len))
      BY <2>1, <3>1 DEF Inductive, BatchInv
    <3> QED BY <1>1, <3>1, <3>2, Elements DEF Covered
  <2>2. CASE ~(batch # <<>> /\ batch[len].key = f)
    <3>1. from = st.files[f].off
      BY <2>2 DEF ReadFrom
    <3>2. st.files[f] \in Checkpoint
      BY <1>1, <1>3 DEF FwdTypeOK, State
    <3>3. Covered(data[f], from, Settled)
      BY <1>3, <3>1 DEF Inductive, CheckpointsCovered
    <3> QED BY <3>1, <3>2, <3>3 DEF Checkpoint, Covered
  <2> QED BY <2>1, <2>2
<1> HIDE DEF v, from
<1>6. end \in Nat /\ end \in 1..Len(data[f]) /\ from < end
  BY <1>2, <1>3, <1>5
<1>7. evs \subseteq Events
  <2>1. \A j \in (from + 1)..end : data[f][j] \in Unit
    BY <1>3, <1>5, <1>6
  <2>2. \A u \in Unit : u.ev \in Events
    BY DEF Unit
  <2> QED BY <2>1, <2>2
<1>8. e \in Entry
  <2> HIDE DEF evs
  <2> QED BY <1>3, <1>6, <1>7 DEF Entry, LineKind, Kinds
<1>9. e.key = f /\ e.end = end /\ e.evs = evs /\ e.kind = LineKind(evs)
  OBVIOUS
<1>10. batch' = Append(batch, e)
  BY <1>2
<1> HIDE DEF e
<1>11. e.kind = LineKind(e.evs)
  BY <1>9
<1>12. /\ from = ReadFrom(Head(views)) /\ Head(views).key = f
  BY DEF from, v
<1>13. data[f][end].nl /\ \A j \in (from + 1)..(end - 1) : ~data[f][j].nl
  BY <1>2
<1>14. e.key = f /\ e.end = end /\ e.evs = {data[f][j].ev : j \in (from + 1)..end}
  BY <1>9
<1> HIDE DEF f, evs
<1>15. f \in Inodes /\ st.files[f] # NoCp
  BY <1>3
<1> QED BY <1>5, <1>6, <1>8, <1>10, <1>11, <1>12, <1>13, <1>14, <1>15

LEMMA FrugalReadLine ==
  ASSUME Frugal, Sighted', ReadLine
  PROVE  Frugal'
<1>1. /\ BatchBound /\ FirstRunSaved /\ BehindInv /\ LinesRead /\ Inductive
      /\ st \in State /\ batch \in Seq(Entry) /\ data \in [Inodes -> Seq(Unit)]
      /\ \A f \in Inodes : st.files[f] # NoCp => st.files[f].off \in Nat
  BY FrugalFacts
<1>2. /\ UNCHANGED <<slot, data, st, disk, sent, run, accepted>>
      /\ fpc = "read" /\ fpc' = "read" /\ ~Full
  BY DEF ReadLine, logVars
<1> DEFINE len == Len(batch)
<1>3. PICK f \in Inodes, from \in Nat, end \in Nat, e \in Entry :
        /\ end \in 1..Len(data[f]) /\ from = ReadFrom(Head(views)) /\ Head(views).key = f /\ st.files[f] # NoCp
        /\ from < end /\ (from = 0 \/ data[f][from].nl)
        /\ data[f][end].nl /\ \A j \in (from + 1)..(end - 1) : ~data[f][j].nl
        /\ e.key = f /\ e.end = end /\ e.evs = {data[f][j].ev : j \in (from + 1)..end}
        /\ e.kind = LineKind(e.evs) /\ batch' = Append(batch, e)
  BY <1>1, NextLine
<1>4. /\ len \in Nat /\ DOMAIN batch = 1..len /\ DOMAIN batch' = 1..(len + 1) /\ Len(batch') = len + 1
      /\ batch'[len + 1] = e /\ \A i \in 1..len : batch'[i] = batch[i]
  BY <1>1, <1>3
<1>5. end \in Nat /\ Len(data[f]) \in Nat /\ end =< Len(data[f]) /\ end > 0
  BY <1>1, <1>3
<1>6. e.evs = LineOf(data[f], end)
  <2>1. from < end /\ (from = 0 \/ data[f][from].nl) /\ \A j \in (from + 1)..(end - 1) : ~data[f][j].nl
    BY <1>3
  <2> DEFINE units == data[f]
  <2>2. from = 0 \/ units[from].nl
    BY <2>1
  <2>3. \A j \in (from + 1)..(end - 1) : ~units[j].nl
    BY <2>1
  <2> HIDE DEF units
  <2>4. /\ \A j \in (from + 1)..end : units[j].ev \in LineOf(units, end)
        /\ \A ev \in LineOf(units, end) : \E j \in (from + 1)..end : ev = units[j].ev
    BY <1>5, <2>1, <2>2, <2>3, LineFrom
  <2>5. e.evs = {units[j].ev : j \in (from + 1)..end}
    BY <1>3 DEF units
  <2>6. e.evs = LineOf(units, end)
    BY <2>4, <2>5
  <2> QED BY <2>6 DEF units
<1>7. \A k \in 1..end : data[f][k].nl =>
        k =< st.files[f].off \/ \E i \in 1..(len + 1) : batch'[i].key = f /\ batch'[i].end = k
  <2> SUFFICES ASSUME NEW k \in 1..end, data[f][k].nl, ~(k =< st.files[f].off)
               PROVE  \E i \in 1..(len + 1) : batch'[i].key = f /\ batch'[i].end = k
    OBVIOUS
  <2>1. CASE k = end
    <3>1. len + 1 \in 1..(len + 1)
      BY <1>4
    <3> QED BY <1>3, <1>4, <2>1, <3>1
  <2>2. CASE k # end
    <3>1. k =< from
      <4>1. k \notin (from + 1)..(end - 1)
        BY <1>3
      <4> QED BY <1>5, <2>2, <4>1
    <3>2. from # st.files[f].off
      BY <3>1
    <3>3. len \in DOMAIN batch /\ batch[len].key = f /\ batch[len].end = from
      <4>1. batch # <<>> /\ batch[len].key = f /\ batch[len].end = from
        BY <1>3, <3>2 DEF ReadFrom
      <4> QED BY <1>1, <1>4, <4>1
    <3>4. k \in 1..batch[len].end
      BY <3>1, <3>3
    <3>5. PICK i \in 1..len : batch[i].key = f /\ batch[i].end = k
      BY <1>1, <3>3, <3>4 DEF LinesRead
    <3>6. i \in 1..(len + 1)
      BY <1>4
    <3> QED BY <1>4, <3>5, <3>6
  <2> QED BY <2>1, <2>2
<1>8. LinesRead'
  <2>1. ASSUME NEW m \in 1..len
        PROVE  LET g == batch'[m].key  last == batch'[m].end IN
               /\ st.files[g] # NoCp
               /\ last \in 1..Len(data[g]) /\ data[g][last].nl /\ batch'[m].evs = LineOf(data[g], last)
               /\ \/ batch'[m].kind = "data" \/ LineKind(LineOf(data[g], last)) # "data"
                  \/ LineOf(data[g], last) \cap TooLarge # {}
               /\ \A k \in 1..last : data[g][k].nl =>
                    k =< st.files[g].off \/ \E i \in 1..m : batch'[i].key = g /\ batch'[i].end = k
    <3>1. LinesReadOf(batch, st.files, data)
      BY <1>1, LinesReadIs
    <3>2. \A i \in 1..m : batch'[i] = batch[i]
      BY <1>4
    <3>3. batch'[m] = batch[m] /\ m \in DOMAIN batch
      BY <1>4
    <3> QED BY <3>1, <3>2, <3>3 DEF LinesReadOf
  <2>2. LET g == batch'[len + 1].key  last == batch'[len + 1].end IN
        /\ st.files[g] # NoCp
        /\ last \in 1..Len(data[g]) /\ data[g][last].nl /\ batch'[len + 1].evs = LineOf(data[g], last)
        /\ \/ batch'[len + 1].kind = "data" \/ LineKind(LineOf(data[g], last)) # "data"
           \/ LineOf(data[g], last) \cap TooLarge # {}
        /\ \A k \in 1..last : data[g][k].nl =>
             k =< st.files[g].off \/ \E i \in 1..(len + 1) : batch'[i].key = g /\ batch'[i].end = k
    <3>1. e.key = f /\ e.end = end /\ e.kind = LineKind(e.evs) /\ batch'[len + 1] = e
      BY <1>3, <1>4
    <3>2. e.kind = "data" \/ LineKind(LineOf(data[f], end)) # "data"
      BY <1>6, <3>1
    <3>3. st.files[f] # NoCp /\ end \in 1..Len(data[f]) /\ data[f][end].nl
      BY <1>3
    <3> HIDE DEF len
    <3>4. batch'[len + 1].key = f /\ batch'[len + 1].end = end /\ batch'[len + 1].evs = e.evs
          /\ batch'[len + 1].kind = e.kind
      BY <3>1
    <3> QED BY <1>6, <1>7, <3>2, <3>3, <3>4
  <2>3. \A m \in 1..(len + 1) : m \in 1..len \/ m = len + 1
    BY <1>4
  <2> HIDE DEF len
  <2>4. LinesReadOf(batch', st.files, data)
    <3> SUFFICES ASSUME NEW m \in 1..(len + 1)
                 PROVE  LET g == batch'[m].key  last == batch'[m].end IN
                        /\ st.files[g] # NoCp
                        /\ last \in 1..Len(data[g]) /\ data[g][last].nl /\ batch'[m].evs = LineOf(data[g], last)
                        /\ \/ batch'[m].kind = "data" \/ LineKind(LineOf(data[g], last)) # "data"
                           \/ LineOf(data[g], last) \cap TooLarge # {}
                        /\ \A k \in 1..last : data[g][k].nl =>
                             k =< st.files[g].off \/ \E i \in 1..m : batch'[i].key = g /\ batch'[i].end = k
      BY <1>4 DEF LinesReadOf
    <3>1. CASE m \in 1..len
      BY <2>1, <3>1
    <3>2. CASE m = len + 1
      BY <2>2, <3>2
    <3> QED BY <2>3, <3>1, <3>2
  <2>5. st' = st /\ data' = data
    BY <1>2
  <2> QED BY <2>4, <2>5, LinesReadNext
<1>9. Cardinality(DataLines(1, Len(batch)))' =< MaxLines
  <2> DEFINE D == {i \in 1..len : batch[i].kind = "data"}
             E == {i \in 1..(len + 1) : batch'[i].kind = "data"}
  <2>1. E \subseteq D \cup {len + 1}
    BY <1>4
  <2>2. MaxLines \in Nat /\ ~(Cardinality(D) >= MaxLines)
    BY <1>2, LimitsAssumption DEF Full, DataLines
  <2>3. IsFiniteSet(D) /\ len + 1 \notin D
    <3>1. D \subseteq 1..len /\ 1 \in Int /\ len \in Int
      BY <1>4
    <3> HIDE DEF D
    <3>2. IsFiniteSet(D)
      BY <3>1, FS_Interval, FS_Subset
    <3> QED BY <1>4, <3>1, <3>2
  <2> HIDE DEF D, E
  <2>4. Cardinality(D) \in Nat
    BY <2>3, FS_CardinalityType
  <2>5. IsFiniteSet(D \cup {len + 1}) /\ Cardinality(D \cup {len + 1}) = Cardinality(D) + 1
    BY <2>3, FS_AddElement
  <2>6. Cardinality(E) \in Nat /\ Cardinality(E) =< Cardinality(D) + 1
    BY <2>1, <2>5, FS_Subset, FS_CardinalityType
  <2>7. Cardinality(E) =< MaxLines
    BY <2>2, <2>4, <2>6
  <2> QED BY <1>4, <2>7 DEF DataLines, E
<1>10. BatchBound'
  BY <1>2, <1>9 DEF BatchBound
<1>11. FirstRunSaved' /\ BehindInv'
  BY <1>1, <1>2 DEF FirstRunSaved, BehindInv, NotBehind, Linked
<1> QED BY <1>8, <1>10, <1>11 DEF Frugal

LEMMA FrugalCommit ==
  ASSUME Frugal, Sighted', Commit
  PROVE  Frugal'
<1>1. /\ BatchBound /\ FirstRunSaved /\ BehindInv /\ LinesRead /\ Inductive /\ FwdTypeOK
      /\ st \in State /\ batch \in Seq(Entry) /\ data \in [Inodes -> Seq(Unit)] /\ Linked \subseteq Inodes
      /\ \A f \in Inodes : st.files[f] # NoCp => st.files[f].off \in Nat
      /\ \A f \in Inodes : disk.files[f] # NoCp => disk.files[f].off \in Nat
  BY FrugalFacts
<1>2. /\ UNCHANGED <<slot, data, disk, batch, cuts, sent, run, accepted>>
      /\ fpc = "commit" /\ fpc' = "save" /\ st'.init = st.init /\ st' \in State
  <2>1. st' \in State
    BY DEF Sighted, Inductive, TypeOK, FwdTypeOK
  <2> QED BY <1>1, <2>1 DEF Commit, logVars, State
<1>3. /\ Part \subseteq DOMAIN batch /\ sent \in Nat /\ Head(cuts) \in Nat /\ Len(batch) \in Nat
      /\ Head(cuts) =< Len(batch) /\ DOMAIN batch = 1..Len(batch)
  BY <1>1, <1>2, PartInBatch
<1>4. ASSUME NEW f \in Inodes, st.files[f] # NoCp
      PROVE  /\ st'.files[f] # NoCp /\ st'.files[f].off \in Nat /\ st.files[f].off =< st'.files[f].off
             /\ \A i \in Part : batch[i].key = f => batch[i].end =< st'.files[f].off
             /\ \/ st'.files[f].off = st.files[f].off
                \/ \E i \in Part : batch[i].key = f /\ batch[i].end = st'.files[f].off
  <2> DEFINE cp == st.files[f]
             max == Max({cp.off} \cup Ends(f))
  <2>1. st'.files[f] = [cp EXCEPT !.off = max]
    BY <1>1, <1>4 DEF Commit, State
  <2>2. cp \in Checkpoint /\ cp.off \in Nat
    BY <1>1, <1>4 DEF State
  <2>3. max \in Nat /\ max >= cp.off /\ (\A x \in Ends(f) : x =< max) /\ max \in {cp.off} \cup Ends(f)
    BY <1>1, <1>2, <1>4, CommitMax
  <2>4. /\ \A i \in Part : batch[i].key = f => batch[i].end \in Ends(f)
        /\ \A x \in Ends(f) : \E i \in Part : batch[i].key = f /\ batch[i].end = x
    BY DEF Ends
  <2> HIDE DEF cp, max
  <2>5. st'.files[f] \in Checkpoint /\ st'.files[f].off = max
    BY <2>1, <2>2, <2>3 DEF Checkpoint
  <2>6. cp.off =< max
    BY <2>2, <2>3
  <2> QED BY <2>3, <2>4, <2>5, <2>6, NoCpAssumption DEF cp
<1>5. \A f \in Inodes : st.files[f] = NoCp => st'.files[f] = NoCp
  BY <1>1 DEF Commit, State
<1>6. LinesRead'
  <2>1. \A f \in Inodes : Len(data[f]) =< Len(data[f]) /\ \A x \in Nat : x =< x
    BY <1>1
  <2> QED BY <1>1, <1>2, <1>4, <2>1, LinesStill
<1>7. ASSUME NEW m \in DOMAIN batch, m =< Head(cuts)
      PROVE  batch[m].end =< st'.files[batch[m].key].off
  <2> DEFINE f == batch[m].key
             end == batch[m].end
  <2>1. f \in Inodes /\ end \in Nat /\ st.files[f] # NoCp
    BY <1>1, Elements DEF LinesRead
  <2>2. CASE m =< sent
    <3>1. end =< st.files[f].off
      BY <1>1, <1>2, <2>2 DEF BatchBound
    <3> HIDE DEF f, end
    <3>2. st.files[f].off \in Nat /\ st'.files[f].off \in Nat /\ st.files[f].off =< st'.files[f].off
      BY <1>1, <1>4, <2>1
    <3> QED BY <2>1, <3>1, <3>2 DEF f, end
  <2>3. CASE ~(m =< sent)
    <3>1. m \in Part
      BY <1>3, <1>7, <2>3 DEF Part
    <3> QED BY <1>4, <2>1, <3>1
  <2> QED BY <2>2, <2>3
<1>8. BatchBound'
  BY <1>1, <1>2, <1>7 DEF BatchBound, DataLines
<1>9. FirstRunSaved'
  BY <1>1, <1>2 DEF FirstRunSaved
<1>10. ASSUME NEW f \in Linked, NEW k \in DOMAIN data[f],
              st'.files[f] # NoCp, k =< st'.files[f].off, data[f][k].nl
       PROVE  \/ disk.files[f] # NoCp /\ k =< disk.files[f].off
              \/ \E i \in Part : batch[i].key = f /\ batch[i].end = k
  <2>1. f \in Inodes /\ st.files[f] # NoCp /\ st.files[f].off \in Nat /\ k \in Nat /\ k > 0
    BY <1>1, <1>5, <1>10
  <2>2. CASE k =< st.files[f].off
    <3>1. st.files[f].off = 0 \/ (disk.files[f] # NoCp /\ st.files[f].off =< disk.files[f].off)
      BY <1>1, <1>2, <2>1 DEF BehindInv, NotBehind
    <3>2. st.files[f].off # 0
      BY <2>1, <2>2
    <3>3. disk.files[f].off \in Nat
      BY <1>1, <2>1, <3>1, <3>2
    <3> QED BY <2>1, <2>2, <3>1, <3>2, <3>3
  <2>3. CASE ~(k =< st.files[f].off)
    <3>1. st'.files[f].off # st.files[f].off
      BY <1>10, <2>3
    <3>2. PICK i \in Part : batch[i].key = f /\ batch[i].end = st'.files[f].off
      BY <1>4, <2>1, <3>1
    <3>3. k \in 1..batch[i].end /\ i \in DOMAIN batch
      BY <1>3, <1>4, <1>10, <2>1, <3>2
    <3>4. PICK h \in 1..i : batch[h].key = f /\ batch[h].end = k
      BY <1>1, <1>10, <2>3, <3>2, <3>3 DEF LinesRead
    <3>5. h \in DOMAIN batch /\ h \in Nat /\ h =< i /\ i =< Head(cuts)
      BY <1>3, <3>2, <3>3 DEF Part
    <3>6. ~(h =< sent)
      BY <1>1, <1>2, <2>3, <3>4, <3>5 DEF BatchBound
    <3>7. h \in Part
      BY <1>3, <3>2, <3>3, <3>5, <3>6 DEF Part
    <3> QED BY <3>4, <3>7
  <2> QED BY <2>2, <2>3
<1>11. BehindInv'
  BY <1>2, <1>10 DEF BehindInv, Part, Linked
<1> QED BY <1>6, <1>8, <1>9, <1>11 DEF Frugal

LEMMA FrugalStep ==
  ASSUME Frugal, ~InodeReuse, ~SaveFails, [Next]_vars
  PROVE  Frugal'
<1>1. Sighted'
  BY SightedStep DEF Frugal
<1>2. CASE Writers
  BY <1>1, <1>2, FrugalWriters
<1>3. CASE StartService \/ \E r \in Starts : Start(r)
  BY <1>1, <1>3, FrugalStart DEF StartService
<1>4. CASE FwdStep \/ FwdFault
  <2>1. CASE \/ EndPlace \/ NothingToRead \/ WaitForMore \/ PostFails \/ SaveFailed \/ Crash
             \/ Save
    BY <1>1, <2>1, FrugalRest, FrugalSave
  <2>2. CASE StartScan \/ OpenView \/ Reconcile \/ Persist
    BY <1>1, <2>2, FrugalLooks, FrugalReconcile, FrugalPersist
  <2>3. CASE NextView \/ NothingToSend \/ Deliver \/ ReadLine
    BY <1>1, <2>3, FrugalReading, FrugalReadLine
  <2>4. CASE PostOK \/ PostSplit \/ PostSkip \/ Commit
    BY <1>1, <2>4, FrugalPost, FrugalCommit
  <2> QED BY <1>4, <2>1, <2>2, <2>3, <2>4 DEF FwdStep, FwdFault
<1>5. CASE UNCHANGED vars
  <2>1. UNCHANGED <<slot, data, fpc, run, st, disk, batch, cuts, sent, accepted>>
    BY <1>5 DEF vars, logVars, fwdVars
  <2>2. LinesRead'
    BY <2>1, LinesReadIs, LinesReadNext DEF Frugal
  <2>3. BatchBound' /\ FirstRunSaved' /\ BehindInv'
    BY <2>1 DEF Frugal, BatchBound, DataLines, FirstRunSaved, BehindInv, NotBehind, Linked, Part
  <2> QED BY <1>1, <2>2, <2>3 DEF Frugal
<1> QED BY <1>2, <1>3, <1>4, <1>5 DEF Next

\* What brainsrv answered for and the checkpoints on disk do not pass yet is never
\* more than the batch under commit, so that a crash between the 200 and the
\* checkpoint write repeats one batch at most, and a crash at any other step none
\* (forward.go deliver and commit), when checkpoints.json can be written.
THEOREM ResendCorrect == ~InodeReuse /\ ~SaveFails => (Spec => []ResendsOneBatch)
<1> SUFFICES ASSUME ~InodeReuse, ~SaveFails PROVE Spec => []ResendsOneBatch
  OBVIOUS
<1>1. Init => Frugal /\ unsaved = 0
  BY FrugalInit DEF Init, FwdInit
<1>2. Frugal /\ unsaved = 0 /\ [Next]_vars => (Frugal /\ unsaved = 0)'
  <2> SUFFICES ASSUME Frugal, unsaved = 0, [Next]_vars PROVE Frugal' /\ unsaved' = 0
    OBVIOUS
  <2>1. unsaved' = unsaved \/ unsaved' = 0
    BY DEF Next, vars, fwdVars, Writers, StartService, Start, FwdStep, FwdFault, StartScan,
           OpenView, Reconcile, Persist, EndPlace, ReadLine, NextView, NothingToRead,
           WaitForMore, NothingToSend, Deliver, EndScan, PostOK, PostSplit, PostSkip,
           PostFails, Commit, Save, SaveFailed, Crash
  <2> QED BY <2>1, FrugalStep
<1>3. Frugal /\ unsaved = 0 => ResendsOneBatch
  BY RepeatsOneBatch
<1> QED BY <1>1, <1>2, <1>3, PTL DEF Spec

=============================================================================
