------------------------------- MODULE RecordFile -------------------------------
(***************************************************************************)
(* lab7/part_2/main.c: several editors show and change the records of one  *)
(* file.  A change locks its record with fcntl, but reads it before and    *)
(* writes it after the lock is held: nothing but the ten seconds an editor *)
(* sleeps with the lock keeps the writes apart, and nothing in the code    *)
(* makes sure that they do.                                                *)
(*                                                                         *)
(* An editor's pc is the statement it executes next:                       *)
(*   off     not running             menu    scanf of the option           *)
(*   scan    read of the next record input   scanf of the new data         *)
(*   lock    fcntl(F_SETLK)          retry   sleep(1)                      *)
(*   sleep   sleep(10)               seek    lseek                         *)
(*   unlock  fcntl(F_UNLCK)          write   write                         *)
(***************************************************************************)
EXTENDS Integers

CONSTANTS
  Editor,      \* the processes
  NumRecords,  \* records in the file
  Value,       \* what a record can hold
  NoValue,     \* a buffer nobody has filled
  MayKill      \* editors that may be killed

ASSUME RecordAssumption ==
  NumRecords \in Nat /\ NoValue \notin Value /\ MayKill \subseteq Editor

VARIABLES
  file,    \* the records
  locks,   \* the editors that hold a lock of each record
  pc,
  option,  \* "all", "get" or "change"
  number,  \* the record number the user typed
  buffer,
  offset,  \* position of the editor's open descriptor, in records
  ahead,   \* history: who got the lock of the editor's record before it and has yet to write
  late     \* history: who has yet to write although a later owner's ten seconds are over

localVars == <<option, number, buffer, offset>>
history == <<ahead, late>>
vars == <<file, locks, pc, localVars, history>>

Records == 0 .. NumRecords - 1

\* What users type: the records there are and one there is not on either side.
Numbers == -1 .. NumRecords

Init ==
  /\ file \in [Records -> Value]
  /\ locks = [r \in Records |-> {}]
  /\ pc = [e \in Editor |-> "off"]
  /\ option = [e \in Editor |-> "all"]
  /\ number = [e \in Editor |-> 0]
  /\ buffer = [e \in Editor |-> NoValue]
  /\ offset = [e \in Editor |-> 0]
  /\ ahead = [e \in Editor |-> {}]
  /\ late = {}

Goto(e, from, to) == pc[e] = from /\ pc' = [pc EXCEPT ![e] = to]

-----------------------------------------------------------------------------
(* The menu and the reading of records *)

Start(e) ==
  /\ Goto(e, "off", "menu")
  /\ UNCHANGED <<file, locks, localVars, history>>

\* Options 1, 2 and 3 open the file at its beginning; 2 and 3 ask for a number.
Choose(e) ==
  /\ Goto(e, "menu", "scan")
  /\ \E o \in {"all", "get", "change"}, n \in Numbers :
       /\ o = "all" => n = 0
       /\ option' = [option EXCEPT ![e] = o]
       /\ number' = [number EXCEPT ![e] = n]
  /\ offset' = [offset EXCEPT ![e] = 0]
  /\ UNCHANGED <<file, locks, buffer, history>>

\* Records are read one after the other, the wanted one last; at the end of the
\* file there is none, and the menu comes back.
ScanRecord(e) ==
  /\ offset[e] < NumRecords
  /\ LET found == option[e] # "all" /\ offset[e] = number[e] IN
     Goto(e, "scan", IF ~found THEN "scan" ELSE IF option[e] = "get" THEN "menu" ELSE "input")
  /\ buffer' = [buffer EXCEPT ![e] = file[offset[e]]]
  /\ offset' = [offset EXCEPT ![e] = @ + 1]
  /\ UNCHANGED <<file, locks, option, number, history>>

\* Fault: a read of nothing counts as one more record.
ScanPastEnd(e) ==
  /\ offset[e] = NumRecords
  /\ Goto(e, "scan", "scan")
  /\ UNCHANGED <<file, locks, localVars, history>>

ScanEnd(e) ==
  /\ offset[e] = NumRecords
  /\ Goto(e, "scan", "menu")
  /\ UNCHANGED <<file, locks, localVars, history>>

\* The user replaces every field, whatever the record held.
Input(e) ==
  /\ Goto(e, "input", "lock")
  /\ \E v \in Value : buffer' = [buffer EXCEPT ![e] = v]
  /\ offset' = [offset EXCEPT ![e] = 0]
  /\ UNCHANGED <<file, locks, option, number, history>>

-----------------------------------------------------------------------------
(* rewrite_record *)

\* Who got the lock of r and has yet to write.
Changing(r) == {e \in Editor : number[e] = r /\ pc[e] \in {"sleep", "seek", "unlock", "write"}}

\* Fault: F_RDLCK, which others may hold as well.
LockShared(e) ==
  /\ Goto(e, "lock", "sleep")
  /\ locks' = [locks EXCEPT ![number[e]] = @ \cup {e}]
  /\ ahead' = [ahead EXCEPT ![e] = Changing(number[e])]
  /\ UNCHANGED <<file, localVars, late>>

Lock(e) ==
  /\ Goto(e, "lock", "sleep")
  /\ locks[number[e]] = {}
  /\ locks' = [locks EXCEPT ![number[e]] = {e}]
  /\ ahead' = [ahead EXCEPT ![e] = Changing(number[e])]
  /\ UNCHANGED <<file, localVars, late>>

LockFails(e) ==
  /\ Goto(e, "lock", "retry")
  /\ locks[number[e]] # {}
  /\ UNCHANGED <<file, locks, localVars, history>>

\* Any other error, say ENOLCK, gives the change up; the descriptor stays open.
LockError(e) ==
  /\ Goto(e, "lock", "menu")
  /\ UNCHANGED <<file, locks, localVars, history>>

Retry(e) ==
  /\ Goto(e, "retry", "lock")
  /\ UNCHANGED <<file, locks, localVars, history>>

\* Ten seconds with the lock; whoever still stands before a write that comes first
\* is late.
Sleep(e) ==
  /\ Goto(e, "sleep", "seek")
  /\ late' = late \cup {d \in ahead[e] : pc[d] = "write"}
  /\ UNCHANGED <<file, locks, localVars, ahead>>

\* Fault: SEEK_END in place of SEEK_SET.
SeekFromEnd(e) ==
  /\ Goto(e, "seek", "unlock")
  /\ offset' = [offset EXCEPT ![e] = NumRecords + number[e]]
  /\ UNCHANGED <<file, locks, option, number, buffer, history>>

\* Fault: the descriptor stays at the beginning of the file.
SeekNowhere(e) ==
  /\ Goto(e, "seek", "unlock")
  /\ UNCHANGED <<file, locks, localVars, history>>

Seek(e) ==
  /\ Goto(e, "seek", "unlock")
  /\ offset' = [offset EXCEPT ![e] = number[e]]
  /\ UNCHANGED <<file, locks, option, number, buffer, history>>

Unlock(e) ==
  /\ Goto(e, "unlock", "write")
  /\ locks' = [locks EXCEPT ![number[e]] = @ \ {e}]
  /\ UNCHANGED <<file, localVars, history>>

\* e's change is written or lost.
Forget(e) ==
  /\ ahead' = [d \in Editor |-> IF d = e THEN {} ELSE ahead[d] \ {e}]
  /\ late' = late \ {e}

\* The write comes after the unlock; close would give up the lock as well.
Write(e) ==
  /\ Goto(e, "write", "menu")
  /\ file' = [file EXCEPT ![offset[e]] = buffer[e]]
  /\ Forget(e)
  /\ locks' = [r \in Records |-> locks[r] \ {e}]
  /\ UNCHANGED localVars

\* Option 0 ends the process between two commands, a signal at any moment; the
\* kernel releases its locks and nothing else is undone.
End(e) ==
  /\ pc[e] = "menu" \/ (pc[e] # "off" /\ e \in MayKill)
  /\ pc' = [pc EXCEPT ![e] = "off"]
  /\ locks' = [r \in Records |-> locks[r] \ {e}]
  /\ Forget(e)
  /\ option' = [option EXCEPT ![e] = "all"]
  /\ number' = [number EXCEPT ![e] = 0]
  /\ buffer' = [buffer EXCEPT ![e] = NoValue]
  /\ offset' = [offset EXCEPT ![e] = 0]
  /\ UNCHANGED file

\* What an editor does without its user.
Work(e) ==
  \/ ScanRecord(e) \/ ScanEnd(e) \/ LockFails(e) \/ Retry(e)
  \/ Sleep(e) \/ Seek(e) \/ Unlock(e) \/ Write(e)

Next == \E e \in Editor : Start(e) \/ Choose(e) \/ Input(e) \/ Lock(e) \/ LockError(e) \/ Work(e) \/ End(e)

Spec == Init /\ [][Next]_vars

\* Every editor runs.  The next change of the same record takes its user more than
\* the second between two attempts, so a waiting editor finds the lock free again
\* and again, both when it wakes and when it asks.
Fairness ==
  \A e \in Editor :
    /\ WF_vars(Work(e))
    /\ SF_vars(Retry(e) /\ locks[number[e]] = {})
    /\ SF_vars(Lock(e))

FairSpec == Spec /\ Fairness

-----------------------------------------------------------------------------
(* Properties *)

\* Every variable has the type its declaration gives it.
TypeOK ==
  /\ file \in [Records -> Value]
  /\ locks \in [Records -> SUBSET Editor]
  /\ pc \in [Editor -> {"off", "menu", "scan", "input", "lock", "retry", "sleep", "seek",
                        "unlock", "write"}]
  /\ option \in [Editor -> {"all", "get", "change"}]
  /\ number \in [Editor -> Numbers]
  /\ buffer \in [Editor -> Value \cup {NoValue}]
  /\ offset \in [Editor -> 0 .. NumRecords]
  /\ ahead \in [Editor -> SUBSET Editor]
  /\ late \in SUBSET Editor

\* The lock is gone when the write comes, so an earlier change may be written after a
\* later one and undo it.  That happens to late editors only: a change is written
\* before one whose lock came first only if the other let the ten seconds that the
\* later owner held the lock go by between its unlock and its write.
OnlyLateOvertaken ==
  [][\A e \in Editor : pc[e] = "write" /\ pc'[e] = "menu" => ahead[e] \subseteq late]_vars

\* A record changes only by the write of an editor whose user named it, and to what
\* that user typed: the descriptor, which the scan left elsewhere and which is set
\* before the unlock, still stands at the record, and nothing else reaches it.
OnlyOwnRecord ==
  [][\A r \in Records :
       file'[r] # file[r] => \E e \in Editor : pc[e] = "write" /\ number[e] = r /\ file'[r] = buffer[e]]_vars

\* Every command gets back to a prompt: the file's end stops each scan, and a
\* lock, whose owner may be killed, is free for those who ask for it in the end.
CommandEnds == \A e \in Editor : pc[e] \notin {"off", "menu", "input"} ~> pc[e] \in {"off", "menu", "input"}

=================================================================================
