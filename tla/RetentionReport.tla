---------------------------- MODULE RetentionReport ----------------------------
(***************************************************************************)
(* What a guarded run reports at its end: RetentionGuard.Retained, the      *)
(* number of its events the log still holds.                               *)
(*                                                                         *)
(* The report does not take the log's lock.  It first looks up every name   *)
(* of the log (os.Stat, the live log first) and keeps what it found; then,  *)
(* segment by segment, it opens the names whose file was the segment's and  *)
(* looks for the segment's first line there.  Other writers append and      *)
(* rotate between any two of these steps.                                  *)
(***************************************************************************)
EXTENDS RuntimeLog

VARIABLES
  rpc,     \* the report: "no" (not asked for), "stat", "check", "done"
  look,    \* the slot whose name it handles next
  kept,    \* slot -> the inode os.Stat found there, or NoFile
  seg,     \* the segment it handles next
  counted, \* the events of the segments it counted
  moved    \* ghost: files renamed or deleted since the report began

reportVars == <<rpc, look, kept, seg, counted, moved>>
allVars    == <<logVars, reportVars>>

ReportTypeOK ==
  /\ rpc \in {"no", "stat", "check", "done"}
  /\ look \in Slots /\ seg \in Nat
  /\ kept \in [Slots -> Inodes \cup {NoFile}]

ReportInit ==
  /\ LogInit
  /\ rpc = "no" /\ look = 0 /\ seg = 1
  /\ kept = [i \in Slots |-> NoFile]
  /\ counted = {} /\ moved = {}

Reporting == rpc \in {"stat", "check"}

\* The guarded run has made its last append and asks.  A guard with no segment
\* reports nothing.
BeginReport ==
  /\ rpc = "no" /\ guard # <<>> /\ ~(guarded /\ wpc # "idle")
  /\ rpc' = "stat" /\ look' = 0 /\ seg' = 1
  /\ UNCHANGED <<logVars, kept, counted, moved>>

StatPath ==
  /\ rpc = "stat"
  /\ kept' = [kept EXCEPT ![look] = slot[look]]
  /\ IF look = Archives THEN rpc' = "check" /\ look' = 0
                        ELSE look' = look + 1 /\ UNCHANGED rpc
  /\ UNCHANGED <<logVars, seg, counted, moved>>

\* On to the next segment, or to the end of the report.
EndSegment ==
  /\ seg' = seg + 1 /\ look' = 0
  /\ rpc' = IF seg = Len(guard) THEN "done" ELSE "check"

\* Mutant: trusts what it found, without opening the name again.
CheckPathByStat ==
  /\ rpc = "check"
  /\ LET s     == guard[seg]
         found == kept[look] = s.file
     IN  /\ counted' = IF found THEN counted \cup s.events ELSE counted
         /\ IF found \/ look = Archives THEN EndSegment
                                        ELSE look' = look + 1 /\ UNCHANGED <<rpc, seg>>
  /\ UNCHANGED <<logVars, kept, moved>>

\* One name for one segment: was the segment's file found under it, and does
\* the name, opened now, lead to the segment's first line?
CheckPath ==
  /\ rpc = "check"
  /\ LET s     == guard[seg]
         found == kept[look] = s.file /\ FirstLineAt(s, look)
     IN  /\ counted' = IF found THEN counted \cup s.events ELSE counted
         /\ IF found \/ look = Archives THEN EndSegment
                                        ELSE look' = look + 1 /\ UNCHANGED <<rpc, seg>>
  /\ UNCHANGED <<logVars, kept, moved>>

\* The other writers go on; the run itself appends no more once it asked.
Renamed == {slot[i] : i \in {j \in Slots : slot'[j] # slot[j]}} \ {NoFile}

WriterBeside ==
  /\ \/ \E g \in Guards : BeginAppend(g) /\ (g => rpc = "no")
     \/ WriterStep({})
     \/ WriterFails
  /\ moved' = IF Reporting THEN moved \cup Renamed ELSE moved
  /\ UNCHANGED <<rpc, look, kept, seg, counted>>

ReportNext == WriterBeside \/ BeginReport \/ StatPath \/ CheckPath

ReportSpec == ReportInit /\ [][ReportNext]_allVars

-----------------------------------------------------------------------------
(* Properties.                                                              *)

\* A report made while others rotate counts no event that is gone when its name
\* is opened, and leaves out only what is gone or in a file that was renamed
\* while it looked; so without a rotation it is exact.  (It does leave out
\* retained events of a file renamed between its two looks.)
ReportIsExact ==
  [][/\ counted' \ counted \subseteq Retained
     /\ seg' # seg => \/ guard[seg].events \subseteq counted'
                      \/ guard[seg].events \cap Retained = {}
                      \/ guard[seg].file \in moved]_allVars

\* The guard does not grow once the report began, and a file that has not moved
\* since then is where the report found it, or will find it.
FoundInv ==
  /\ rpc = "no" => seg = 1
  /\ Reporting /\ wpc # "idle" => ~guarded
  /\ Reporting =>
       /\ seg \in DOMAIN guard
       /\ \A k \in DOMAIN guard, i \in Slots :
            slot[i] = guard[k].file /\ slot[i] \notin moved =>
              \/ rpc = "stat" /\ look =< i
              \/ kept[i] = slot[i] /\ (rpc = "check" /\ k = seg => look =< i)
=============================================================================
