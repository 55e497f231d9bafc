--------------------------- MODULE RecordFile_proof ---------------------------
(***************************************************************************)
(* Theorems about RecordFile (lab7/part_2), for every number of editors    *)
(* and records.                                                            *)
(***************************************************************************)
EXTENDS RecordFile, TLAPS

-----------------------------------------------------------------------------
(* The inductive invariant *)

Locking == {"sleep", "seek", "unlock"}

\* An editor that changes a record has found it in the file, and writes where it
\* sought.
ChangesRecord ==
  \A e \in Editor :
    /\ pc[e] \in {"input", "lock", "retry", "write"} \cup Locking => number[e] \in Records
    /\ pc[e] \in {"unlock", "write"} => offset[e] = number[e]

\* A lock has the owner who is between lock and unlock, and no other.
LockOwners == \A r \in Records : locks[r] = {e \in Editor : number[e] = r /\ pc[e] \in Locking}

\* Whoever got the lock before e has given it back since; by the time e's ten seconds
\* are over it is late.
AheadIsLate ==
  \A e \in Editor :
    /\ \A d \in ahead[e] : pc[d] = "write"
    /\ pc[e] \in {"seek", "unlock", "write"} => ahead[e] \subseteq late

\* What is going to be written has been typed in.
FilledBuffers == \A e \in Editor : pc[e] \in {"lock", "retry", "write"} \cup Locking => buffer[e] \in Value

IInv == TypeOK /\ FilledBuffers /\ ChangesRecord /\ LockOwners /\ AheadIsLate

-----------------------------------------------------------------------------
(* Every step preserves the invariant *)

\* All editors but e stay where they are.
Others(e) == \A d \in Editor \ {e} : pc'[d] = pc[d] /\ number'[d] = number[d]

LEMMA InvInit ==
  ASSUME Init
  PROVE  IInv
<1>1. TypeOK
  <2>1. /\ file \in [Records -> Value] /\ locks \in [Records -> SUBSET Editor]
        /\ option \in [Editor -> {"all", "get", "change"}]
        /\ buffer \in [Editor -> Value \cup {NoValue}]
        /\ ahead \in [Editor -> SUBSET Editor] /\ late \in SUBSET Editor
    BY DEF Init
  <2>2. pc \in [Editor -> {"off"}]
    BY DEF Init
  <2>3. number \in [Editor -> Numbers] /\ offset \in [Editor -> 0 .. NumRecords]
    BY RecordAssumption DEF Init, Numbers
  <2> QED
    BY <2>1, <2>2, <2>3 DEF TypeOK
<1>2. FilledBuffers /\ ChangesRecord /\ LockOwners /\ AheadIsLate
  BY DEF Init, FilledBuffers, ChangesRecord, LockOwners, AheadIsLate, Locking
<1> QED
  BY <1>1, <1>2 DEF IInv

\* The steps outside a change, before the lock and after the write.
LEMMA InvOutside ==
  ASSUME IInv, NEW e \in Editor,
         \/ Start(e) \/ Choose(e) \/ ScanRecord(e) \/ ScanEnd(e) \/ Input(e)
         \/ LockFails(e) \/ LockError(e) \/ Retry(e)
  PROVE  IInv'
<1>1. Others(e) /\ UNCHANGED <<locks, ahead, late, file>>
  BY DEF IInv, TypeOK, Start, Choose, ScanRecord, ScanEnd, Input, LockFails, LockError, Retry, Goto,
         localVars, history, Others
<1>2. pc[e] \notin Locking \cup {"write"} /\ pc'[e] \notin Locking \cup {"write"}
  BY DEF IInv, TypeOK, Start, Choose, ScanRecord, ScanEnd, Input, LockFails, LockError, Retry, Goto, Locking
<1>3. LockOwners'
  BY <1>1, <1>2 DEF IInv, LockOwners, Others
<1>4. AheadIsLate'
  <2> SUFFICES ASSUME NEW x \in Editor
               PROVE  /\ \A d \in ahead[x] : pc'[d] = "write"
                      /\ pc'[x] \in {"seek", "unlock", "write"} => ahead[x] \subseteq late
    BY <1>1 DEF AheadIsLate
  <2>1. ahead[x] \subseteq Editor
    BY DEF IInv, TypeOK
  <2>2. \A d \in ahead[x] : d # e /\ pc[d] = "write"
    BY <1>2 DEF IInv, AheadIsLate
  <2>3. pc'[x] \in {"seek", "unlock", "write"} => x # e
    BY <1>2 DEF Locking
  <2> QED
    BY <1>1, <2>1, <2>2, <2>3 DEF IInv, AheadIsLate, Others
<1>5. TypeOK' /\ FilledBuffers' /\ ChangesRecord'
  <2>1. CASE Start(e) \/ ScanEnd(e) \/ LockFails(e) \/ LockError(e) \/ Retry(e)
    BY <1>1, <2>1 DEF IInv, TypeOK, FilledBuffers, ChangesRecord, Start, ScanEnd, LockFails, LockError, Retry,
                      Goto, localVars, Locking
  <2>2. CASE Choose(e)
    BY <1>1, <2>2, RecordAssumption DEF IInv, TypeOK, FilledBuffers, ChangesRecord, Choose, Goto, Locking
  <2>3. CASE ScanRecord(e)
    <3>1. offset[e] \in Records /\ offset'[e] \in 0 .. NumRecords /\ file[offset[e]] \in Value
      BY <2>3, RecordAssumption DEF IInv, TypeOK, ScanRecord, Records
    <3>2. TypeOK'
      BY <1>1, <2>3, <3>1 DEF IInv, TypeOK, ScanRecord, Goto
    <3>3. pc'[e] = "input" => number'[e] \in Records
      BY <2>3, <3>1 DEF IInv, TypeOK, ScanRecord, Goto
    <3>4. pc'[e] \in {"scan", "menu", "input"} /\ UNCHANGED number
          /\ \A d \in Editor \ {e} : pc'[d] = pc[d] /\ offset'[d] = offset[d]
      BY <2>3 DEF IInv, TypeOK, ScanRecord, Goto
    <3> QED
      BY <2>3, <3>2, <3>3, <3>4 DEF IInv, ScanRecord, FilledBuffers, ChangesRecord, TypeOK, Goto, Locking
  <2>4. CASE Input(e)
    BY <1>1, <2>4, RecordAssumption DEF IInv, TypeOK, FilledBuffers, ChangesRecord, Input, Goto, Locking
  <2> QED
    BY <2>1, <2>2, <2>3, <2>4
<1> QED
  BY <1>3, <1>4, <1>5 DEF IInv

\* Whoever gets the lock finds ahead of it only editors that have given it back.
LEMMA InvLock ==
  ASSUME IInv, NEW e \in Editor, Lock(e)
  PROVE  IInv'
<1> DEFINE n == number[e]
<1>1. /\ pc[e] = "lock" /\ pc' = [pc EXCEPT ![e] = "sleep"]
      /\ n \in Records /\ locks[n] = {}
      /\ locks' = [locks EXCEPT ![n] = {e}]
      /\ ahead' = [ahead EXCEPT ![e] = Changing(n)]
      /\ UNCHANGED <<file, option, number, buffer, offset, late>>
  BY DEF IInv, ChangesRecord, Lock, Goto, localVars
<1>2. TypeOK'
  <2>1. Changing(n) \subseteq Editor
    BY DEF Changing
  <2> QED
    BY <1>1, <2>1 DEF IInv, TypeOK
<1>3. FilledBuffers' /\ ChangesRecord'
  BY <1>1 DEF IInv, TypeOK, FilledBuffers, ChangesRecord, Locking
<1>4. LockOwners'
  BY <1>1 DEF IInv, TypeOK, LockOwners, Locking
<1>5. \A d \in Changing(n) : d \in Editor /\ pc[d] = "write"
  BY <1>1 DEF IInv, TypeOK, LockOwners, Changing, Locking
<1>6. AheadIsLate'
  <2> SUFFICES ASSUME NEW x \in Editor
               PROVE  /\ \A d \in ahead'[x] : pc'[d] = "write"
                      /\ pc'[x] \in {"seek", "unlock", "write"} => ahead'[x] \subseteq late
    BY <1>1 DEF AheadIsLate
  <2>1. ahead'[x] = IF x = e THEN Changing(n) ELSE ahead[x]
    BY <1>1 DEF IInv, TypeOK
  <2>2. pc'[x] = IF x = e THEN "sleep" ELSE pc[x]
    BY <1>1 DEF IInv, TypeOK
  <2>3. \A d \in Editor : pc[d] = "write" => pc'[d] = "write"
    BY <1>1 DEF IInv, TypeOK
  <2>4. ahead[x] \subseteq Editor /\ \A d \in ahead[x] : pc[d] = "write"
    BY DEF IInv, TypeOK, AheadIsLate
  <2>5. pc[x] \in {"seek", "unlock", "write"} => ahead[x] \subseteq late
    BY DEF IInv, AheadIsLate
  <2>6. \A d \in ahead'[x] : pc'[d] = "write"
    BY <1>5, <2>1, <2>3, <2>4
  <2> QED
    BY <2>1, <2>2, <2>5, <2>6
<1> QED
  BY <1>2, <1>3, <1>4, <1>6 DEF IInv

\* While the owner sleeps whoever is ahead of it stands before its write, and is late
\* when the owner wakes.
LEMMA InvOwner ==
  ASSUME IInv, NEW e \in Editor, Sleep(e) \/ Seek(e) \/ Unlock(e)
  PROVE  IInv'
<1> DEFINE n == number[e]
<1>1. /\ pc[e] \in Locking /\ pc'[e] \in {"seek", "unlock", "write"}
      /\ pc' = [pc EXCEPT ![e] = pc'[e]]
      /\ UNCHANGED <<file, option, number, buffer, ahead>>
  BY DEF IInv, TypeOK, Sleep, Seek, Unlock, Goto, localVars, history, Locking
<1>2. n \in Records
  BY <1>1 DEF IInv, ChangesRecord
<1>3. late' \in SUBSET Editor /\ late \subseteq late'
  BY DEF IInv, TypeOK, Sleep, Seek, Unlock, history
<1>4. TypeOK'
  <2>1. n \in 0 .. NumRecords
    BY <1>2, RecordAssumption DEF Records
  <2>2. offset' = offset \/ offset' = [offset EXCEPT ![e] = n]
    BY DEF Sleep, Seek, Unlock, localVars
  <2>3. locks' = locks \/ locks' = [locks EXCEPT ![n] = @ \ {e}]
    BY DEF Sleep, Seek, Unlock
  <2>4. offset' \in [Editor -> 0 .. NumRecords]
    BY <2>1, <2>2 DEF IInv, TypeOK
  <2>5. locks' \in [Records -> SUBSET Editor]
    <3>1. locks[n] \ {e} \in SUBSET Editor
      BY <1>2 DEF IInv, TypeOK
    <3> HIDE DEF n
    <3> QED
      BY <1>2, <2>3, <3>1 DEF IInv, TypeOK
  <2> QED
    BY <1>1, <1>3, <2>4, <2>5 DEF IInv, TypeOK
<1>5. FilledBuffers' /\ ChangesRecord'
  BY <1>1, <1>2 DEF IInv, TypeOK, FilledBuffers, ChangesRecord, Sleep, Seek, Unlock, Goto, localVars, Locking
<1>6. LockOwners'
  <2>1. CASE Sleep(e) \/ Seek(e)
    BY <1>1, <2>1 DEF IInv, TypeOK, LockOwners, Sleep, Seek, Goto, Locking
  <2>2. CASE Unlock(e)
    BY <1>1, <1>2, <2>2 DEF IInv, TypeOK, LockOwners, Unlock, Goto, Locking
  <2> QED
    BY <2>1, <2>2
<1>7. AheadIsLate'
  <2> SUFFICES ASSUME NEW x \in Editor
               PROVE  /\ \A d \in ahead[x] : pc'[d] = "write"
                      /\ pc'[x] \in {"seek", "unlock", "write"} => ahead[x] \subseteq late'
    BY <1>1 DEF AheadIsLate
  <2>1. ahead[x] \subseteq Editor /\ \A d \in ahead[x] : pc[d] = "write" /\ d # e
    BY <1>1 DEF IInv, TypeOK, AheadIsLate, Locking
  <2>2. \A d \in ahead[x] : pc'[d] = "write"
    BY <1>1, <2>1 DEF IInv, TypeOK
  <2>3. ASSUME x # e, pc'[x] \in {"seek", "unlock", "write"} PROVE ahead[x] \subseteq late'
    BY <1>1, <1>3, <2>3 DEF IInv, TypeOK, AheadIsLate
  <2>4. ASSUME x = e PROVE ahead[x] \subseteq late'
    <3>1. CASE Sleep(e)
      BY <2>1, <2>4, <3>1 DEF Sleep
    <3>2. CASE Seek(e) \/ Unlock(e)
      BY <1>3, <2>4, <3>2 DEF IInv, AheadIsLate, Seek, Unlock, Goto
    <3> QED
      BY <3>1, <3>2
  <2> QED
    BY <2>2, <2>3, <2>4
<1> QED
  BY <1>4, <1>5, <1>6, <1>7 DEF IInv

\* An editor whose change is written or lost is ahead of nobody any more.
LEMMA Forgotten ==
  ASSUME IInv, NEW e \in Editor, Others(e), Forget(e), pc'[e] \in {"menu", "off"}
  PROVE  AheadIsLate' /\ ahead' \in [Editor -> SUBSET Editor] /\ late' \in SUBSET Editor
<1>1. ahead' = [d \in Editor |-> IF d = e THEN {} ELSE ahead[d] \ {e}] /\ late' = late \ {e}
  BY DEF Forget
<1>2. ASSUME NEW x \in Editor
      PROVE  /\ \A d \in ahead'[x] : pc'[d] = "write"
             /\ pc'[x] \in {"seek", "unlock", "write"} => ahead'[x] \subseteq late'
  <2>1. ahead'[x] \subseteq ahead[x] /\ e \notin ahead'[x]
    BY <1>1
  <2>2. ahead[x] \subseteq Editor /\ \A d \in ahead[x] : pc[d] = "write"
    BY DEF IInv, TypeOK, AheadIsLate
  <2>3. pc[x] \in {"seek", "unlock", "write"} => ahead[x] \subseteq late
    BY DEF IInv, AheadIsLate
  <2>4. x # e => pc'[x] = pc[x]
    BY DEF Others
  <2>5. \A d \in ahead'[x] : pc'[d] = "write"
    BY <2>1, <2>2 DEF Others
  <2> QED
    BY <1>1, <2>1, <2>3, <2>4, <2>5
<1> QED
  BY <1>1, <1>2 DEF IInv, TypeOK, AheadIsLate

LEMMA InvWrite ==
  ASSUME IInv, NEW e \in Editor, Write(e)
  PROVE  IInv'
<1> DEFINE n == number[e]
<1>1. /\ pc[e] = "write" /\ pc' = [pc EXCEPT ![e] = "menu"]
      /\ n \in Records /\ offset[e] = n
      /\ file' = [file EXCEPT ![n] = buffer[e]]
      /\ Forget(e)
      /\ locks' = [r \in Records |-> locks[r] \ {e}]
      /\ UNCHANGED <<option, number, buffer, offset>>
  BY DEF IInv, ChangesRecord, Write, Goto, localVars
<1>2. Others(e) /\ pc'[e] = "menu"
  BY <1>1 DEF IInv, TypeOK, Others
<1>3. FilledBuffers' /\ ChangesRecord' /\ LockOwners'
  BY <1>1 DEF IInv, TypeOK, FilledBuffers, ChangesRecord, LockOwners, Locking
<1>4. AheadIsLate' /\ ahead' \in [Editor -> SUBSET Editor] /\ late' \in SUBSET Editor
  BY <1>1, <1>2, Forgotten
<1>5. TypeOK'
  <2>1. buffer[e] \in Value
    BY <1>1 DEF IInv, FilledBuffers
  <2> QED
    BY <1>1, <1>4, <2>1 DEF IInv, TypeOK
<1> QED
  BY <1>3, <1>4, <1>5 DEF IInv

\* Whoever ends or is killed, in a change or not, gives up its lock.
LEMMA InvEnd ==
  ASSUME IInv, NEW e \in Editor, End(e)
  PROVE  IInv'
<1>1. /\ pc' = [pc EXCEPT ![e] = "off"]
      /\ locks' = [r \in Records |-> locks[r] \ {e}]
      /\ Forget(e)
      /\ option' = [option EXCEPT ![e] = "all"]
      /\ number' = [number EXCEPT ![e] = 0]
      /\ buffer' = [buffer EXCEPT ![e] = NoValue]
      /\ offset' = [offset EXCEPT ![e] = 0]
      /\ UNCHANGED file
  BY DEF End
<1>2. Others(e) /\ pc'[e] = "off"
  BY <1>1 DEF IInv, TypeOK, Others
<1>3. FilledBuffers' /\ ChangesRecord' /\ LockOwners'
  BY <1>1 DEF IInv, TypeOK, FilledBuffers, ChangesRecord, LockOwners, Locking
<1>4. AheadIsLate' /\ ahead' \in [Editor -> SUBSET Editor] /\ late' \in SUBSET Editor
  BY <1>1, <1>2, Forgotten
<1>5. TypeOK'
  <2>1. /\ file' \in [Records -> Value] /\ locks' \in [Records -> SUBSET Editor]
        /\ option' \in [Editor -> {"all", "get", "change"}]
    BY <1>1 DEF IInv, TypeOK
  <2>2. number' \in [Editor -> Numbers] /\ offset' \in [Editor -> 0 .. NumRecords]
    BY <1>1, RecordAssumption DEF IInv, TypeOK, Numbers
  <2>3. /\ pc' \in [Editor -> {"off", "menu", "scan", "input", "lock", "retry", "sleep", "seek",
                               "unlock", "write"}]
        /\ buffer' \in [Editor -> Value \cup {NoValue}]
    BY <1>1 DEF IInv, TypeOK
  <2> QED
    BY <1>4, <2>1, <2>2, <2>3 DEF TypeOK
<1> QED
  BY <1>3, <1>4, <1>5 DEF IInv

LEMMA InvNext ==
  ASSUME IInv, [Next]_vars
  PROVE  IInv'
<1>1. ASSUME UNCHANGED vars PROVE IInv'
  BY <1>1 DEF vars, localVars, history, IInv, TypeOK, FilledBuffers, ChangesRecord, LockOwners, AheadIsLate
<1> QED
  BY <1>1, InvOutside, InvLock, InvOwner, InvWrite, InvEnd DEF Next, Work

LEMMA Invariance == Spec => []IInv
BY InvInit, InvNext, PTL DEF Spec

-----------------------------------------------------------------------------
(* The theorems *)

\* Every variable keeps its type; in particular no editor writes past the file's end.
THEOREM TypeCorrect == Spec => []TypeOK
<1>1. IInv => TypeOK
  BY DEF IInv
<1> QED
  BY <1>1, Invariance, PTL

\* A change is written before one whose lock came first only if the other's write is
\* more than the ten seconds of a later owner behind its unlock, for any number of
\* editors, any of which may be killed.
THEOREM OvertakenOnlyIfLate == Spec => OnlyLateOvertaken
<1>1. ASSUME IInv, Next, NEW e \in Editor, pc[e] = "write", pc'[e] = "menu"
      PROVE  ahead[e] \subseteq late
  BY <1>1 DEF IInv, AheadIsLate
<1>2. IInv /\ [Next]_vars =>
        [\A e \in Editor : pc[e] = "write" /\ pc'[e] = "menu" => ahead[e] \subseteq late]_vars
  BY <1>1
<1> QED
  BY <1>2, Invariance, PTL DEF Spec, OnlyLateOvertaken

\* A record changes only by the write of an editor whose user named it.
THEOREM ChangesOwnRecord == Spec => OnlyOwnRecord
<1>1. ASSUME IInv, Next, NEW r \in Records, file'[r] # file[r]
      PROVE  \E e \in Editor : pc[e] = "write" /\ number[e] = r /\ file'[r] = buffer[e]
  <2>1. PICK e \in Editor : Write(e)
    BY <1>1 DEF Next, Work, Start, Choose, ScanRecord, ScanEnd, Input, Lock, LockFails, LockError, Retry, Sleep,
                Seek, Unlock, End
  <2>2. pc[e] = "write" /\ offset[e] = number[e] /\ file' = [file EXCEPT ![number[e]] = buffer[e]]
    BY <1>1, <2>1 DEF IInv, ChangesRecord, Write, Goto
  <2> QED
    BY <1>1, <2>2 DEF IInv, TypeOK
<1>2. IInv /\ [Next]_vars =>
        [\A r \in Records : file'[r] # file[r] =>
           \E e \in Editor : pc[e] = "write" /\ number[e] = r /\ file'[r] = buffer[e]]_vars
  BY <1>1
<1> QED
  BY <1>2, Invariance, PTL DEF Spec, OnlyOwnRecord

==============================================================================
