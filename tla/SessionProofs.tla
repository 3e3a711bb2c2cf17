--------------------------- MODULE SessionProofs ---------------------------
(***************************************************************************)
(* Proofs about the session and its lock.                                  *)
(*                                                                         *)
(* About SessionState, for any clients, rows and disturbances: the pointer *)
(* with which an expired session is found names a row, and turns that      *)
(* follow one another find all that was saved.  For the pointer the        *)
(* archiver is followed through its steps: between the commit and the      *)
(* pointer, and ever after, its row is there (Archiving).  For the turns   *)
(* the copies are followed through theirs (CalmInv).                       *)
(*                                                                         *)
(* About SessionLock, for any masters, savers and disturbances: the grants *)
(* of a saver stand until they expire, and so Redlock implements the lease *)
(* on which the session relies.                                            *)
(***************************************************************************)
EXTENDS SessionState, SessionLock, FiniteSetTheorems, TLAPS

(* The archiver has a snapshot from the moment it read one, a row from the *)
(* moment it found one, and a row that is committed once it is about to    *)
(* point there.                                                            *)
Archiving ==
  /\ DOMAIN rows = AllRows
  /\ arch = [at |-> arch.at, task |-> arch.task, copy |-> arch.copy, row |-> arch.row]
  /\ arch.at \in {"find", "remember", "commit"} => arch.copy # NoCopy
  /\ arch.at \in {"remember", "commit", "point"} => arch.row \in Rows
  /\ arch.at = "point" => rows[arch.row] # NoCopy

Recoverable == Archiving /\ PointerNamesRow /\ pointer \in Rows \cup {NoRow}

-----------------------------------------------------------------------------
(* The lease. *)

(* Whoever saves the session goes through the lease.                       *)
LEMMA StepsAreLeased == [Next]_vars => [LeaseNext]_leaseVars
<1> SUFFICES ASSUME [Next]_vars PROVE LeaseNext \/ UNCHANGED leaseVars
  OBVIOUS
<1>1. ASSUME NEW c \in Clients, Load(c) \/ Drained(c) \/ Turn(c)
      PROVE  UNCHANGED leaseVars
  BY <1>1 DEF Load, ReadHot, ReadWarm, ReadCold, WriteBackHot, WriteBackWarm, Drained, Turn,
              GraphFinds, GraphCreates, IntentReady, Answer, GraphSaves
<1>2. ASSUME NEW c \in Clients, Save(c) PROVE LeaseNext \/ UNCHANGED leaseVars
  <2>1. CASE LockSession(c)
    BY <2>1 DEF LockSession, LeaseNext
  <2>2. CASE SaveAgain(c) \/ SaveFeedback(c)
    BY <2>2 DEF SaveAgain, SaveFeedback, Unlock, LeaseNext
  <2>3. CASE Conflict(c) \/ SaveHot(c) \/ SaveWarm(c)
    BY <2>3 DEF Conflict, SaveHot, SaveWarm
  <2> QED
    BY <1>2, <2>1, <2>2, <2>3 DEF Save
<1>3. ASSUME NEW c \in Clients, Fails(c) PROVE LeaseNext \/ UNCHANGED leaseVars
  <2>1. CASE SaveRaises(c)
    BY <2>1 DEF SaveRaises, Unlock, LeaseNext
  <2>2. CASE LeaseBreaks(c)
    BY <2>2 DEF LeaseBreaks, LeaseNext
  <2>3. CASE ReadRaises(c) \/ WriteBackRaises(c) \/ GraphOpenRaises(c) \/ GraphSaveRaises(c) \/ Crash(c)
    BY <2>3 DEF ReadRaises, WriteBackRaises, GraphOpenRaises, GraphSaveRaises, Crash
  <2> QED
    BY <1>3, <2>1, <2>2, <2>3 DEF Fails
<1>4. ASSUME NEW c \in Clients, LeaseExpires(c) PROVE LeaseNext
  BY <1>4 DEF LeaseExpires, LeaseNext
<1>5. \/ ReadFeedback \/ RestoreHot \/ Archive \/ ArchiveRaises \/ HotExpires \/ WarmExpires
      \/ UNCHANGED vars
      => UNCHANGED leaseVars
  BY DEF ReadFeedback, RestoreHot, Archive, ReadSnapshot, FindRow, RememberRow, CommitRow,
         PointToRow, DropWarm, ArchiveRaises, HotExpires, WarmExpires, vars
<1>6. ASSUME NEW task \in Tasks, StartArchive(task) PROVE UNCHANGED leaseVars
  BY <1>6 DEF StartArchive
<1> QED
  BY <1>1, <1>2, <1>3, <1>4, <1>5, <1>6 DEF Next

-----------------------------------------------------------------------------
(* The pointer. *)

LEMMA RecoverableInit == Init => Recoverable
BY DEF Init, Recoverable, Archiving, PointerNamesRow, Off

(* Only the archiver touches rows and pointer.                             *)
LEMMA OthersLeaveRows ==
  [Next]_vars =>
    \/ UNCHANGED <<rows, pointer, arch>>
    \/ Archive \/ ArchiveRaises \/ \E task \in Tasks: StartArchive(task)
<1> SUFFICES ASSUME [Next]_vars,
                    ~(Archive \/ ArchiveRaises \/ \E task \in Tasks: StartArchive(task))
             PROVE  UNCHANGED <<rows, pointer, arch>>
  OBVIOUS
<1> USE DEF tierVars, clientVars
<1>1. ASSUME NEW c \in Clients, Load(c) \/ Drained(c) \/ Turn(c) \/ LeaseExpires(c)
      PROVE  UNCHANGED <<rows, pointer, arch>>
  BY <1>1 DEF Load, ReadHot, ReadWarm, ReadCold, WriteBackHot, WriteBackWarm, Drained, Turn,
              GraphFinds, GraphCreates, IntentReady, Answer, GraphSaves, LeaseExpires
<1>2. ASSUME NEW c \in Clients, Save(c) PROVE UNCHANGED <<rows, pointer, arch>>
  BY <1>2 DEF Save, LockSession, Conflict, SaveHot, SaveWarm, SaveAgain, SaveFeedback
<1>3. ASSUME NEW c \in Clients, Fails(c) PROVE UNCHANGED <<rows, pointer, arch>>
  BY <1>3 DEF Fails, ReadRaises, WriteBackRaises, GraphOpenRaises, GraphSaveRaises, SaveRaises, Crash, LeaseBreaks
<1>4. ReadFeedback \/ RestoreHot \/ HotExpires \/ WarmExpires \/ UNCHANGED vars
        => UNCHANGED <<rows, pointer, arch>>
  BY DEF ReadFeedback, RestoreHot, HotExpires, WarmExpires, vars
<1> QED
  BY <1>1, <1>2, <1>3, <1>4 DEF Next

LEMMA RecoverableStep == Recoverable /\ [Next]_vars => Recoverable'
<1> SUFFICES ASSUME Recoverable, [Next]_vars PROVE Recoverable'
  OBVIOUS
<1> USE DEF Recoverable, Archiving, PointerNamesRow
<1>1. CASE UNCHANGED <<rows, pointer, arch>>
  BY <1>1
<1>2. CASE ArchiveRaises
  BY <1>2 DEF ArchiveRaises, tierVars, Off
<1>3. ASSUME NEW task \in Tasks, StartArchive(task) PROVE Recoverable'
  <2>1. arch' \in {[Off EXCEPT !.at = "drop", !.task = task],
                   [Off EXCEPT !.at = "read", !.task = task]}
    BY <1>3 DEF StartArchive
  <2>2. UNCHANGED <<rows, pointer>>
    BY <1>3 DEF StartArchive, tierVars
  <2> QED
    BY <2>1, <2>2 DEF Off
<1>4. CASE ReadSnapshot
  BY <1>4 DEF ReadSnapshot, tierVars, Off
<1>5. CASE FindRow
  <2>1. PICK r \in Rows: arch' = [arch EXCEPT !.at = "remember", !.row = r]
                      \/ arch' = [arch EXCEPT !.at = "commit", !.row = r]
    BY <1>5 DEF FindRow, RowOf, FreshRows, Rows, NoRow
  <2>2. UNCHANGED <<rows, pointer>> /\ arch.copy # NoCopy
    BY <1>5 DEF FindRow, tierVars
  <2> QED
    BY <2>1, <2>2
<1>6. CASE RememberRow
  BY <1>6 DEF RememberRow
<1>7. CASE CommitRow
  <2>1. arch.copy # NoCopy /\ arch.row \in Rows /\ UNCHANGED pointer
    BY <1>7 DEF CommitRow
  <2>2. DOMAIN rows' = AllRows /\ rows'[arch.row] # NoCopy
        /\ \A r \in Rows: rows[r] # NoCopy => rows'[r] # NoCopy
    BY <1>7, <2>1 DEF CommitRow, AllRows
  <2>3. arch' = [arch EXCEPT !.at = "point"]
    BY <1>7 DEF CommitRow
  <2> QED
    BY <2>1, <2>2, <2>3
<1>8. CASE PointToRow
  BY <1>8 DEF PointToRow, Off
<1>9. CASE DropWarm
  BY <1>9 DEF DropWarm, Off
<1> QED
  BY <1>1, <1>2, <1>3, <1>4, <1>5, <1>6, <1>7, <1>8, <1>9, OthersLeaveRows DEF Archive

(* The pointer names a committed row, whatever the archiver is in the      *)
(* middle of and however it fails (core/memory.py archive_to_cold).        *)
THEOREM PointerIsSafe == Spec => []PointerNamesRow
<1>1. Recoverable => PointerNamesRow
  BY DEF Recoverable
<1> QED
  BY RecoverableInit, RecoverableStep, <1>1, PTL DEF Spec

-----------------------------------------------------------------------------
(* Types. *)

LEMMA Copies ==
  /\ Blank \in Copy /\ NoCopy \notin Copy
  /\ GraphCopies \cup {Created} \subseteq Copy
  /\ \A s \in Copy, c \in Chats, p \in BOOLEAN :
       /\ Signed(s) \in Copy /\ [s EXCEPT !.planning = p] \in Copy
       /\ [s EXCEPT !.turns = s.turns \cup {c}] \in Copy
  /\ \A s \in Copy \cup {NoCopy}, r \in Rows \cup {NoRow} : [s EXCEPT !.conv = r] \in Copy
<1>1. Blank \in Copy
  BY DEF Blank, Copy
<1>2. NoCopy \notin Copy
  BY MaxRowsAssumption DEF NoCopy, Blank, Copy, Rows, NoRow
<1>3. GraphCopies \cup {Created} \subseteq Copy
  <2>1. [Blank EXCEPT !.profile = TRUE] \in Copy
    BY DEF Blank, Copy
  <2>2. [Blank EXCEPT !.profile = TRUE, !.who = "user"] \in Copy
    BY DEF Blank, Copy
  <2>3. Created \in Copy
    BY DEF Created, Blank, Copy
  <2> QED
    BY <1>1, <2>1, <2>2, <2>3 DEF GraphCopies
<1>4. \A s \in Copy, c \in Chats, p \in BOOLEAN :
       /\ Signed(s) \in Copy /\ [s EXCEPT !.planning = p] \in Copy
       /\ [s EXCEPT !.turns = s.turns \cup {c}] \in Copy
  BY DEF Signed, Copy
<1>5. \A s \in Copy \cup {NoCopy}, r \in Rows \cup {NoRow} : [s EXCEPT !.conv = r] \in Copy
  <2>1. \A r \in Rows \cup {NoRow} : [NoCopy EXCEPT !.conv = r] \in Copy
    BY DEF NoCopy, Blank, Copy
  <2>2. \A s \in Copy, r \in Rows \cup {NoRow} : [s EXCEPT !.conv = r] \in Copy
    BY DEF Copy
  <2> QED
    BY <2>1, <2>2
<1> QED
  BY <1>1, <1>2, <1>3, <1>4, <1>5

LEMMA SpendType ==
  ASSUME used \in [Disturbances -> Nat], NEW d \in Disturbances, Spend(d)
  PROVE  used' \in [Disturbances -> Nat]
  BY DEF Spend

\* Only turns run the graph and write the hot key twice.
TurnSteps == {"open", "turn", "graph", "saveAgain"}

AtType ==
  /\ at \in [Clients -> Steps]
  /\ \A c \in Clients \ Chats : at[c] \notin TurnSteps
  /\ \A c \in Chats : at[c] # "drained"
MidType == mid \in [Clients -> BOOLEAN] /\ \A c \in Clients \ Chats : ~mid[c]

LEMMA GotoType ==
  ASSUME AtType, NEW c \in Clients, NEW a \in Steps, Goto(c, a),
         a \in TurnSteps => c \in Chats, a = "drained" => c \notin Chats
  PROVE  AtType'
  BY ChatsAssumption DEF Goto, AtType

\* The lease keeps its holders among the clients.
LeaseType == held \subseteq Clients /\ broken \subseteq held

LEMMA LeaseTyped == LeaseType /\ [LeaseNext]_leaseVars => LeaseType'
  BY DEF LeaseType, LeaseNext, leaseVars, Acquire, Break, Release

LEMMA LoadedType ==
  ASSUME TypeOK, NEW c \in Clients, NEW s \in Copy, Loaded(c, s)
  PROVE  mine' \in [Clients -> Copy] /\ AtType'
<1>1. OrFeedback(s) \in Copy
  BY DEF OrFeedback, TypeOK
<1> QED
  BY <1>1, GotoType DEF Loaded, TypeOK, AtType, TurnSteps, Steps

\* What a client's step leaves of the types but the lease's.
ClientTypes ==
  /\ {hot, warm, feedback} \subseteq Copy \cup {NoCopy}
  /\ AtType /\ mine \in [Clients -> Copy] /\ MidType
  /\ acked \subseteq Chats /\ calm \in BOOLEAN /\ used \in [Disturbances -> Nat]

LEMMA LoadType ==
  ASSUME TypeOK, NEW c \in Clients, Load(c) PROVE ClientTypes'
<1>1. CASE ReadHot(c)
  <2>1. mine' \in [Clients -> Copy] /\ AtType'
    BY <1>1, LoadedType, GotoType DEF ReadHot, TypeOK, AtType, TurnSteps, Steps
  <2> QED
    BY <1>1, <2>1 DEF ReadHot, Starts, TypeOK, AtType, MidType, TurnSteps, ClientTypes, tierVars
<1>2. CASE ReadWarm(c)
  <2>1. mine' \in [Clients -> Copy] /\ AtType'
    BY <1>2, LoadedType, GotoType DEF ReadWarm, TypeOK, AtType, TurnSteps, Steps
  <2> QED
    BY <1>2, <2>1 DEF ReadWarm, TypeOK, AtType, MidType, TurnSteps, ClientTypes, tierVars, boundVars
<1>3. CASE ReadCold(c)
  <2>1. Cold \in Copy
    BY Copies DEF Cold, TypeOK, NoRow, AllRows
  <2>2. mine' \in [Clients -> Copy] /\ AtType'
    BY <1>3, <2>1, LoadedType DEF ReadCold
  <2> QED
    BY <1>3, <2>2 DEF ReadCold, TypeOK, AtType, MidType, TurnSteps, ClientTypes, tierVars, boundVars
<1>4. CASE WriteBackHot(c)
  BY <1>4, GotoType DEF WriteBackHot, TypeOK, AtType, MidType, TurnSteps, ClientTypes, boundVars, Steps
<1>5. CASE WriteBackWarm(c)
  BY <1>5, GotoType DEF WriteBackWarm, AfterLoad, TypeOK, AtType, MidType, TurnSteps, ClientTypes, boundVars, Steps
<1> QED
  BY <1>1, <1>2, <1>3, <1>4, <1>5 DEF Load

LEMMA FinalType ==
  ASSUME TypeOK, NEW c \in Chats, Final(c)
  PROVE  mine' \in [Clients -> Copy] /\ MidType' /\ AtType'
<1>1. c \in Clients /\ mine[c] \in Copy
  BY ChatsAssumption DEF TypeOK
<1>2. [[mine[c] EXCEPT !.turns = mine[c].turns \cup {c}] EXCEPT !.planning = FALSE] \in Copy
  BY <1>1, Copies
<1>3. mine' = [mine EXCEPT ![c] = [[mine[c] EXCEPT !.turns = mine[c].turns \cup {c}]
                                      EXCEPT !.planning = FALSE]]
  BY <1>1 DEF Final, TypeOK
<1>4. mine' \in [Clients -> Copy]
  BY <1>2, <1>3 DEF TypeOK
<1>5. MidType'
  BY DEF Final, TypeOK, MidType
<1>6. AtType'
  BY <1>1, GotoType DEF Final, TypeOK, AtType, TurnSteps, Steps
<1> QED
  BY <1>4, <1>5, <1>6

LEMMA TurnType ==
  ASSUME TypeOK, NEW c \in Chats, Turn(c) PROVE ClientTypes'
<1>0. c \in Clients /\ mine[c] \in Copy
  BY ChatsAssumption DEF TypeOK
<1>4. CASE GraphFinds(c)
  BY <1>0, <1>4, GotoType DEF GraphFinds, TypeOK, AtType, MidType, TurnSteps, ClientTypes, tierVars, boundVars, Steps
<1>5. CASE GraphCreates(c)
  BY <1>0, <1>5, Copies, GotoType DEF GraphCreates, TypeOK, AtType, MidType, TurnSteps, ClientTypes, boundVars, Steps
<1>1. CASE IntentReady(c)
  <2>1. [Signed(mine[c]) EXCEPT !.planning = TRUE] \in Copy
    BY <1>0, Copies
  <2> QED
    BY <1>0, <1>1, <2>1, GotoType DEF IntentReady, TypeOK, AtType, MidType, TurnSteps, ClientTypes, tierVars, boundVars, Steps
<1>2. CASE Answer(c)
  BY <1>0, <1>2, Copies, GotoType DEF Answer, TypeOK, AtType, MidType, TurnSteps, ClientTypes, tierVars, boundVars, Steps
<1>3. CASE GraphSaves(c)
  <2>1. hot' \in Copy /\ warm' \in Copy
    BY <1>3, Copies DEF GraphSaves
  <2> QED
    BY <1>3, <2>1, FinalType DEF GraphSaves, TypeOK, AtType, MidType, TurnSteps, ClientTypes, boundVars
<1> QED
  BY <1>1, <1>2, <1>3, <1>4, <1>5 DEF Turn

LEMMA SaveType ==
  ASSUME TypeOK, NEW c \in Clients, Save(c) \/ Drained(c) PROVE ClientTypes'
<1>1. CASE Drained(c)
  <2>1. mine' \in [Clients -> Copy]
    <3>1. \A p \in BOOLEAN : [mine[c] EXCEPT !.planning = p] \in Copy
      <4>1. mine[c] \in Copy
        BY DEF TypeOK
      <4> QED
        BY <4>1 DEF Copy
    <3> QED
      BY <1>1, <3>1 DEF Drained, TypeOK
  <2>2. AtType'
    BY <1>1, GotoType DEF Drained, TypeOK, AtType, TurnSteps, Steps
  <2> QED
    BY <1>1, <2>1, <2>2 DEF Drained, TypeOK, AtType, MidType, TurnSteps, ClientTypes, tierVars, boundVars
<1>2. CASE LockSession(c)
  BY <1>2, GotoType, SpendType DEF LockSession, TypeOK, AtType, MidType, TurnSteps, ClientTypes, tierVars, Steps, Disturbances
<1>3. CASE Conflict(c)
  BY <1>3, GotoType, SpendType
     DEF Conflict, AfterSave, TypeOK, AtType, MidType, TurnSteps, ClientTypes, tierVars, Steps, Disturbances
<1>4. CASE SaveHot(c)
  BY <1>4, GotoType DEF SaveHot, TypeOK, AtType, MidType, TurnSteps, ClientTypes, boundVars, Steps
<1>5. CASE SaveWarm(c)
  BY <1>5, GotoType DEF SaveWarm, TypeOK, AtType, MidType, TurnSteps, ClientTypes, boundVars, Steps
<1>6. CASE SaveAgain(c)
  BY <1>6, GotoType DEF SaveAgain, AfterSave, TypeOK, AtType, MidType, TurnSteps, ClientTypes, Steps
<1>7. CASE SaveFeedback(c)
  BY <1>7, GotoType DEF SaveFeedback, TypeOK, AtType, MidType, TurnSteps, ClientTypes, boundVars, Steps
<1> QED
  BY <1>1, <1>2, <1>3, <1>4, <1>5, <1>6, <1>7 DEF Save

LEMMA FailsType ==
  ASSUME TypeOK, NEW c \in Clients, Fails(c) PROVE ClientTypes'
<1>0. used' \in [Disturbances -> Nat]
  BY SpendType DEF Fails, ReadRaises, WriteBackRaises, GraphOpenRaises, GraphSaveRaises, SaveRaises, Crash,
     LeaseBreaks, TypeOK, Disturbances
<1>1. CASE ReadRaises(c)
  BY <1>0, <1>1, LoadedType, Copies DEF ReadRaises, TypeOK, MidType, ClientTypes, tierVars
<1>2. CASE WriteBackRaises(c)
  BY <1>0, <1>2, GotoType
     DEF WriteBackRaises, AfterLoad, TypeOK, AtType, MidType, TurnSteps, ClientTypes, tierVars, Steps
<1>3. CASE GraphSaveRaises(c)
  <2>1. c \in Chats
    BY <1>3 DEF GraphSaveRaises, TypeOK
  <2>2. hot' \in Copy \cup {NoCopy}
    BY <1>3, Copies DEF GraphSaveRaises, TypeOK
  <2> QED
    BY <1>0, <1>3, <2>1, <2>2, FinalType DEF GraphSaveRaises, TypeOK, ClientTypes
<1>7. CASE GraphOpenRaises(c)
  <2>1. c \in Chats
    BY <1>7 DEF GraphOpenRaises, TypeOK
  <2>2. {hot', warm'} \subseteq Copy \cup {NoCopy}
    BY <1>7, Copies DEF GraphOpenRaises, TypeOK
  <2>3. AtType'
    BY <1>7, <2>1, GotoType DEF GraphOpenRaises, TypeOK, AtType, TurnSteps, Steps
  <2> QED
    BY <1>0, <1>7, <2>2, <2>3 DEF GraphOpenRaises, TypeOK, MidType, ClientTypes
<1>4. CASE SaveRaises(c)
  <2>1. AtType'
    BY <1>4, GotoType DEF SaveRaises, AfterSave, TypeOK, AtType, TurnSteps, Steps
  <2> QED
    BY <1>0, <1>4, <2>1 DEF SaveRaises, TypeOK, MidType, ClientTypes, tierVars
<1>5. CASE Crash(c)
  BY <1>0, <1>5, GotoType
     DEF Crash, TypeOK, AtType, MidType, TurnSteps, ClientTypes, tierVars, Steps
<1>6. CASE LeaseBreaks(c)
  BY <1>0, <1>6 DEF LeaseBreaks, TypeOK, AtType, MidType, TurnSteps, ClientTypes, tierVars, clientVars
<1> QED
  BY <1>1, <1>2, <1>3, <1>4, <1>5, <1>6, <1>7 DEF Fails

\* The client's steps, and what they leave alone.
ClientStep(c) ==
  Load(c) \/ Save(c) \/ Drained(c) \/ LeaseExpires(c) \/ Fails(c) \/ (c \in Chats /\ Turn(c))

LEMMA ClientFrame ==
  ASSUME NEW c \in Clients, ClientStep(c)
  PROVE  UNCHANGED <<guest, rows, pointer, arch, restore>>
<1> USE DEF tierVars, clientVars
<1>1. CASE Load(c) \/ Drained(c) \/ Turn(c) \/ LeaseExpires(c)
  BY <1>1 DEF Load, ReadHot, ReadWarm, ReadCold, WriteBackHot, WriteBackWarm, Drained, Turn,
              GraphFinds, GraphCreates, IntentReady, Answer, GraphSaves, LeaseExpires
<1>2. CASE Save(c)
  BY <1>2 DEF Save, LockSession, Conflict, SaveHot, SaveWarm, SaveAgain, SaveFeedback
<1>3. CASE Fails(c)
  BY <1>3 DEF Fails, ReadRaises, WriteBackRaises, GraphOpenRaises, GraphSaveRaises, SaveRaises, Crash, LeaseBreaks
<1> QED
  BY <1>1, <1>2, <1>3 DEF ClientStep

LEMMA ClientStepType ==
  ASSUME TypeOK, LeaseType', NEW c \in Clients, ClientStep(c) PROVE TypeOK'
<1>1. ClientTypes'
  <2>1. CASE LeaseExpires(c)
    BY <2>1 DEF LeaseExpires, TypeOK, AtType, MidType, TurnSteps, ClientTypes, tierVars, clientVars, boundVars
  <2> QED
    BY <2>1, LoadType, SaveType, FailsType, TurnType DEF ClientStep
<1> QED
  BY <1>1, ClientFrame DEF ClientTypes, TypeOK, LeaseType, AtType, MidType, TurnSteps

Archives == [at: {"off", "read", "find", "remember", "commit", "point", "drop"},
             task: Tasks \cup {"none"}, copy: Copy \cup {NoCopy}, row: Rows \cup {NoRow}]

\* What the archiver and the restore of a session leave.
OtherTypes ==
  /\ {hot, warm, restore} \subseteq Copy \cup {NoCopy}
  /\ rows \in [AllRows -> Copy \cup {NoCopy}] /\ pointer \in Rows \cup {NoRow}
  /\ arch \in Archives /\ acked \subseteq Chats /\ calm \in BOOLEAN
  /\ used \in [Disturbances -> Nat]

LEMMA OffType == Off \in Archives
  BY DEF Off, Archives, NoRow

LEMMA ArchiveType ==
  ASSUME TypeOK, Archive \/ ArchiveRaises \/ \E task \in Tasks : StartArchive(task)
  PROVE  OtherTypes'
<1>0. arch \in Archives
  BY DEF TypeOK, Archives
<1>1. CASE ReadSnapshot
  <2>1. [arch EXCEPT !.at = "find", !.copy = warm] \in Archives
    BY <1>0 DEF TypeOK, Archives
  <2> QED
    BY <1>1, <2>1, OffType DEF ReadSnapshot, TypeOK, OtherTypes, tierVars, boundVars
<1>2. CASE FindRow
  <2>1. \A r \in Rows, a \in {"commit", "remember"} : [arch EXCEPT !.at = a, !.row = r] \in Archives
    BY <1>0 DEF Archives
  <2>2. arch' \in Archives
    BY <1>2, <2>1, MaxRowsAssumption DEF FindRow, RowOf, FreshRows, NoRow, Rows
  <2> QED
    BY <1>2, <2>2 DEF FindRow, TypeOK, OtherTypes, tierVars, boundVars
<1>3. CASE RememberRow
  <2>1. [arch.copy EXCEPT !.conv = arch.row] \in Copy
    BY <1>0, Copies DEF Archives
  <2>2. [arch EXCEPT !.at = "commit"] \in Archives
    BY <1>0 DEF Archives
  <2> QED
    BY <1>3, <2>1, <2>2 DEF RememberRow, TypeOK, OtherTypes, boundVars
<1>4. CASE CommitRow
  <2>1. arch.copy \in Copy \cup {NoCopy} /\ [arch EXCEPT !.at = "point"] \in Archives
    BY <1>0 DEF Archives
  <2>2. rows' \in [AllRows -> Copy \cup {NoCopy}]
    BY <1>4, <2>1 DEF CommitRow, TypeOK
  <2> QED
    BY <1>4, <2>1, <2>2 DEF CommitRow, TypeOK, OtherTypes, boundVars
<1>5. CASE PointToRow
  <2>1. arch.row \in Rows \cup {NoRow} /\ [arch EXCEPT !.at = "drop"] \in Archives
    BY <1>0 DEF Archives
  <2> QED
    BY <1>5, <2>1, OffType DEF PointToRow, TypeOK, OtherTypes, boundVars
<1>6. CASE DropWarm
  BY <1>6, OffType DEF DropWarm, TypeOK, OtherTypes
<1>7. CASE ArchiveRaises
  BY <1>7, OffType, SpendType DEF ArchiveRaises, TypeOK, OtherTypes, tierVars, Disturbances
<1>8. CASE \E task \in Tasks : StartArchive(task)
  <2>1. PICK task \in Tasks : StartArchive(task)
    BY <1>8
  <2>2. \A a \in {"drop", "read"} : [Off EXCEPT !.at = a, !.task = task] \in Archives
    BY DEF Off, Archives, NoRow
  <2>3. arch' \in Archives
    BY <2>1, <2>2 DEF StartArchive
  <2> QED
    BY <2>1, <2>3, SpendType DEF StartArchive, Starts, TypeOK, OtherTypes, tierVars, Disturbances
<1> QED
  BY <1>1, <1>2, <1>3, <1>4, <1>5, <1>6, <1>7, <1>8 DEF Archive

LEMMA ExpiryType ==
  ASSUME TypeOK, ReadFeedback \/ RestoreHot \/ HotExpires \/ WarmExpires
  PROVE  OtherTypes'
<1>1. CASE ReadFeedback
  BY <1>1, SpendType DEF ReadFeedback, TypeOK, OtherTypes, Archives, tierVars, Disturbances
<1>2. CASE RestoreHot
  BY <1>2 DEF RestoreHot, TypeOK, OtherTypes, Archives, boundVars
<1>3. CASE HotExpires
  BY <1>3, SpendType DEF HotExpires, TypeOK, OtherTypes, Archives, Disturbances
<1>4. CASE WarmExpires
  BY <1>4 DEF WarmExpires, TypeOK, OtherTypes, Archives
<1> QED
  BY <1>1, <1>2, <1>3, <1>4

LEMMA OtherFrame ==
  ASSUME \/ Archive \/ ArchiveRaises \/ \E task \in Tasks : StartArchive(task)
         \/ ReadFeedback \/ RestoreHot \/ HotExpires \/ WarmExpires
  PROVE  UNCHANGED <<guest, feedback, at, mine, mid, leaseVars>>
  BY DEF Archive, ReadSnapshot, FindRow, RememberRow, CommitRow, PointToRow, DropWarm,
         ArchiveRaises, StartArchive, ReadFeedback, RestoreHot, HotExpires, WarmExpires,
         tierVars, clientVars

LEMMA InitType == Init => TypeOK
<1> SUFFICES ASSUME Init PROVE TypeOK
  OBVIOUS
<1>1. {hot, warm, feedback, restore} \subseteq Copy \cup {NoCopy}
  <2>1. [Blank EXCEPT !.profile = TRUE, !.planning = TRUE] \in Copy
    BY DEF Blank, Copy
  <2> QED
    BY <2>1 DEF Init
<1>2. rows \in [AllRows -> Copy \cup {NoCopy}] /\ mine \in [Clients -> Copy]
  <2>1. [Blank EXCEPT !.profile = TRUE] \in Copy
    BY Copies DEF GraphCopies
  <2>2. PICK o \in Copy \cup {NoCopy} : rows = [r \in AllRows |-> IF r = Own THEN o ELSE NoCopy]
    BY <2>1 DEF Init
  <2> QED
    BY <2>2, Copies DEF Init
<1>3. AtType /\ MidType
  BY ChatsAssumption DEF Init, AtType, MidType, TurnSteps, Steps
<1>4. arch \in Archives
  BY OffType DEF Init
<1> QED
  BY <1>1, <1>2, <1>3, <1>4
     DEF Init, LeaseInit, TypeOK, AtType, MidType, TurnSteps, Archives

LEMMA NextType == TypeOK /\ [Next]_vars => TypeOK'
<1> SUFFICES ASSUME TypeOK, [Next]_vars PROVE TypeOK'
  OBVIOUS
<1>0. LeaseType'
  BY StepsAreLeased, LeaseTyped DEF TypeOK, LeaseType
<1>1. ASSUME NEW c \in Clients, ClientStep(c) PROVE TypeOK'
  BY <1>0, <1>1, ClientStepType
<1>2. CASE \/ Archive \/ ArchiveRaises \/ \E task \in Tasks : StartArchive(task)
           \/ ReadFeedback \/ RestoreHot \/ HotExpires \/ WarmExpires
  BY <1>2, ArchiveType, ExpiryType, OtherFrame DEF OtherTypes, Archives, TypeOK, leaseVars
<1>3. CASE UNCHANGED vars
  BY <1>3 DEF vars, tierVars, clientVars, boundVars, leaseVars, TypeOK
<1> QED
  BY <1>1, <1>2, <1>3 DEF Next, ClientStep

\* In every reachable state every copy of the session, the clients' own
\* included, is a session state, and only turns run the graph.
THEOREM TypeCorrect == Spec => []TypeOK
  BY InitType, NextType, PTL DEF Spec

-----------------------------------------------------------------------------
(* What turns that follow one another find.                                *)
(*                                                                         *)
(* While nothing failed and nothing overlapped one activity at most is     *)
(* under way (Alone), and all that was saved is in every tier that is      *)
(* there, and in the cold row when the warm copy is not (Tiers).  A turn   *)
(* breaks that when the graph writes its own state over both copies, and   *)
(* it is whole again when the turn's save has reached both (Saving); until *)
(* then the turn has the only copy, and no expiry can come between.        *)

Holds(s) == acked \subseteq s.turns

Busy(c) == at[c] \notin Resting

Alone ==
  /\ restore = NoCopy
  /\ \A c, d \in Clients : Busy(c) /\ Busy(d) => c = d
  /\ \A c \in Clients : Busy(c) => arch = Off

\* The last save of a turn, after the graph has written its own.
Saving(c) == c \in Chats /\ ~mid[c] /\ at[c] \in {"wait", "saveHot", "saveWarm", "saveAgain"}

Tiers ==
  /\ hot # NoCopy => Holds(hot)
  /\ warm # NoCopy => Holds(warm)
  /\ warm = NoCopy => Holds(Cold)

Works(c) ==
  /\ at[c] = "readCold" => warm = NoCopy
  /\ at[c] = "open" => warm # NoCopy
  /\ at[c] \notin Resting \cup {"readWarm", "readCold"} => Holds(mine[c])
  /\ Saving(c) => c \in mine[c].turns /\ warm # NoCopy
  /\ Saving(c) /\ at[c] = "saveAgain" => warm = mine[c]

Archived ==
  /\ arch.at \in {"find", "remember", "commit", "point"} => Holds(arch.copy)
  /\ arch.at = "point" => rows[arch.row] = arch.copy
  /\ arch.at = "drop" => guest \/ Holds(Cold)

CalmInv ==
  calm => /\ Alone /\ Archived /\ \A c \in Clients : Works(c)
          /\ (\A c \in Clients : ~Saving(c)) => Tiers

IInv == TypeOK /\ Recoverable /\ CalmInv

\* Of a step of client c only that client's part is to be shown.
LEMMA CalmStep ==
  ASSUME IInv, NEW c \in Clients, calm /\ (Busy(c) \/ Quiet), NEW a \in Steps, Goto(c, a),
         UNCHANGED <<arch, restore>>, Works(c)', (~Saving(c) => Tiers)'
  PROVE  CalmInv'
<1>1. restore = NoCopy /\ arch = Off /\ \A d \in Clients \ {c} : ~Busy(d)
  BY DEF IInv, CalmInv, Alone, Busy, Quiet
<1>2. at' \in [Clients -> Steps] /\ \A d \in Clients \ {c} : at'[d] = at[d]
  BY DEF Goto, IInv, TypeOK
<1>3. \A d \in Clients \ {c} : ~Busy(d)'
  BY <1>1, <1>2 DEF Busy
<1>4. \A d \in Clients \ {c} : Works(d)' /\ ~Saving(d)'
  BY <1>3 DEF Busy, Works, Saving, Resting
<1>5. Alone'
  BY <1>1, <1>3 DEF Alone, Busy
<1>6. Archived'
  BY <1>1 DEF Archived, Off
<1> QED
  BY <1>4, <1>5, <1>6 DEF CalmInv

\* When a client is at work, or nobody is, nobody else is saving.
LEMMA CalmTiers ==
  ASSUME IInv, NEW c \in Clients, calm /\ (Busy(c) \/ Quiet)
  PROVE  Works(c) /\ (~Saving(c) => Tiers)
<1>1. \A d \in Clients \ {c} : ~Busy(d)
  BY DEF IInv, CalmInv, Alone, Busy, Quiet
<1>2. \A d \in Clients \ {c} : ~Saving(d)
  BY <1>1 DEF Busy, Saving, Resting
<1> QED
  BY <1>2 DEF IInv, CalmInv

\* What is not there holds nothing, so that the job's copy may replace it.
LEMMA FeedbackHolds ==
  ASSUME NEW s \in Copy, Holds(s) PROVE Holds(OrFeedback(s))
  BY DEF Holds, OrFeedback, HasPayload

LEMMA LoadedHolds ==
  ASSUME TypeOK, NEW c \in Clients, NEW s \in Copy, Holds(s), Loaded(c, s), acked' = acked
  PROVE  Holds(mine[c])' /\ at'[c] = "backHot"
<1>1. mine'[c] = OrFeedback(s) /\ at'[c] = "backHot"
  BY DEF Loaded, Goto, TypeOK
<1>2. Holds(OrFeedback(s))
  BY FeedbackHolds
<1> QED
  BY <1>1, <1>2 DEF Holds

LEMMA LoadCalm ==
  ASSUME IInv, NEW c \in Clients, Load(c), calm'
  PROVE  CalmInv'
<1>0. calm /\ (Busy(c) \/ Quiet) /\ acked' = acked /\ TypeOK
  BY DEF Load, ReadHot, ReadWarm, ReadCold, WriteBackHot, WriteBackWarm, Starts, Busy, Resting,
     boundVars, IInv
<1>1. Works(c) /\ (~Saving(c) => Tiers)
  BY <1>0, CalmTiers
<1>2. ~Saving(c)
  BY DEF Load, ReadHot, ReadWarm, ReadCold, WriteBackHot, WriteBackWarm, Saving
<1>3. \A s \in Copy : Loaded(c, s) => Goto(c, "backHot")
  BY DEF Loaded
<1>4. UNCHANGED <<arch, restore, mid>>
  BY DEF Load, ReadHot, ReadWarm, ReadCold, WriteBackHot, WriteBackWarm
<1>5. ASSUME UNCHANGED <<hot, warm, rows, pointer>>, NEW s \in Copy, Holds(s), Loaded(c, s)
      PROVE  CalmInv'
  <2>1. Holds(mine[c])' /\ at'[c] = "backHot"
    BY <1>0, <1>5, LoadedHolds
  <2>2. Works(c)' /\ ~Saving(c)'
    BY <2>1 DEF Works, Saving
  <2>3. Tiers'
    BY <1>0, <1>1, <1>2, <1>5 DEF Tiers, Holds, Cold
  <2> QED
    BY <1>0, <1>3, <1>4, <1>5, <2>2, <2>3, CalmStep DEF Steps
<1>6. ASSUME UNCHANGED <<hot, warm, rows, pointer>>, NEW a \in {"readWarm", "readCold"}, Goto(c, a),
             a = "readCold" => warm = NoCopy
      PROVE  CalmInv'
  <2>1. at'[c] = a
    BY <1>0, <1>6 DEF Goto, TypeOK
  <2>2. Works(c)' /\ ~Saving(c)'
    BY <1>6, <2>1 DEF Works, Saving
  <2>3. Tiers'
    BY <1>0, <1>1, <1>2, <1>6 DEF Tiers, Holds, Cold
  <2> QED
    BY <1>0, <1>4, <1>6, <2>2, <2>3, CalmStep DEF Steps
<1>7. CASE ReadHot(c)
  <2>1. UNCHANGED <<hot, warm, rows, pointer>>
    BY <1>7 DEF ReadHot, tierVars
  <2>2. CASE hot # NoCopy
    BY <1>0, <1>1, <1>2, <1>5, <1>7, <2>1, <2>2 DEF ReadHot, Tiers, TypeOK
  <2>3. CASE hot = NoCopy
    BY <1>6, <1>7, <2>1, <2>3 DEF ReadHot
  <2> QED
    BY <2>2, <2>3
<1>8. CASE ReadWarm(c)
  <2>1. UNCHANGED <<hot, warm, rows, pointer>>
    BY <1>8 DEF ReadWarm, tierVars
  <2>2. CASE warm # NoCopy
    BY <1>0, <1>1, <1>2, <1>5, <1>8, <2>1, <2>2 DEF ReadWarm, Tiers, TypeOK
  <2>3. CASE warm = NoCopy
    BY <1>6, <1>8, <2>1, <2>3 DEF ReadWarm
  <2> QED
    BY <2>2, <2>3
<1>9. CASE ReadCold(c)
  <2>1. UNCHANGED <<hot, warm, rows, pointer>>
    BY <1>9 DEF ReadCold, tierVars
  <2>2. Cold \in Copy
    BY <1>0, Copies DEF Cold, TypeOK, NoRow, AllRows
  <2>3. Holds(Cold)
    BY <1>1, <1>2, <1>9 DEF ReadCold, Works, Tiers
  <2> QED
    BY <1>5, <1>9, <2>1, <2>2, <2>3 DEF ReadCold
<1>10. CASE WriteBackHot(c) \/ WriteBackWarm(c)
  <2>1. PICK a \in {"backWarm", "open", "drained"} : Goto(c, a)
    BY <1>10 DEF WriteBackHot, WriteBackWarm, AfterLoad
  <2>2. at'[c] = a
    BY <1>0, <2>1 DEF Goto, TypeOK
  <2>3. Holds(mine[c])
    BY <1>1, <1>10 DEF Works, WriteBackHot, WriteBackWarm, Resting
  <2>5. mine[c] # NoCopy
    BY <1>0, Copies DEF TypeOK
  <2>7. a = "open" => warm' = mine[c]
    BY <1>0, <1>10, <2>2 DEF WriteBackHot, WriteBackWarm, Goto, TypeOK
  <2>4. Works(c)' /\ ~Saving(c)'
    BY <1>0, <1>10, <2>2, <2>3, <2>5, <2>7 DEF Works, Saving, Holds, WriteBackHot, WriteBackWarm
  <2>6. Tiers'
    BY <1>0, <1>1, <1>2, <1>10, <2>3, <2>5 DEF Tiers, Holds, Cold, WriteBackHot, WriteBackWarm
  <2> QED
    BY <1>0, <1>4, <2>1, <2>4, <2>6, CalmStep DEF Steps
<1> QED
  BY <1>7, <1>8, <1>9, <1>10 DEF Load

\* A turn keeps what it loaded, and adds itself when the graph has ended.
LEMMA TurnCalm ==
  ASSUME IInv, NEW c \in Chats, Turn(c), calm'
  PROVE  CalmInv'
<1>0. /\ c \in Clients /\ calm /\ Busy(c) /\ acked' = acked
      /\ mine[c] \in Copy /\ DOMAIN mine = Clients /\ DOMAIN mid = Clients /\ DOMAIN at = Clients
  <2>1. c \in Clients /\ TypeOK
    BY ChatsAssumption DEF IInv
  <2>2. calm /\ Busy(c) /\ acked' = acked
    BY DEF Turn, GraphFinds, GraphCreates, IntentReady, Answer, GraphSaves, Busy, Resting, boundVars
  <2> QED
    BY <2>1, <2>2 DEF TypeOK
<1>1. Works(c) /\ (~Saving(c) => Tiers)
  BY <1>0, CalmTiers
<1>7. ~GraphCreates(c)
  BY <1>1 DEF GraphCreates, Works
<1>8. CASE GraphFinds(c)
  <2>1. /\ at'[c] = "turn" /\ Goto(c, "turn")
        /\ UNCHANGED <<hot, warm, rows, pointer, mine, arch, restore>>
    BY <1>0, <1>8 DEF GraphFinds, Goto, tierVars
  <2>2. ~Saving(c) /\ Holds(mine[c])
    BY <1>1, <1>8 DEF GraphFinds, Saving, Works, Resting
  <2>3. Works(c)' /\ Tiers'
    BY <1>0, <1>1, <2>1, <2>2 DEF Works, Saving, Holds, Tiers, Cold
  <2> QED
    BY <1>0, <2>1, <2>3, CalmStep DEF Steps
<1>2. ~Saving(c) /\ Holds(mine[c])
  BY <1>1 DEF Turn, GraphFinds, GraphCreates, IntentReady, Answer, GraphSaves, Saving, Works, Resting
<1>3. UNCHANGED <<arch, restore>>
  BY DEF Turn, GraphFinds, GraphCreates, IntentReady, Answer, GraphSaves
<1>4. CASE IntentReady(c)
  <2>1. /\ mine'[c].turns = mine[c].turns /\ mid'[c] /\ at'[c] = "wait" /\ Goto(c, "wait")
        /\ UNCHANGED <<hot, warm, rows, pointer>>
    BY <1>0, <1>4 DEF IntentReady, Signed, Goto, Copy, tierVars
  <2>2. Works(c)' /\ Tiers'
    BY <1>0, <1>1, <1>2, <2>1 DEF Works, Saving, Holds, Tiers, Cold
  <2> QED
    BY <1>0, <1>3, <2>1, <2>2, CalmStep DEF Steps
<1>5. CASE Answer(c)
  <2>1. /\ mine'[c].turns = mine[c].turns /\ at'[c] = "graph" /\ Goto(c, "graph")
        /\ UNCHANGED <<hot, warm, rows, pointer>>
    BY <1>0, <1>5 DEF Answer, Signed, Goto, Copy, tierVars
  <2>2. Works(c)' /\ Tiers'
    BY <1>0, <1>1, <1>2, <2>1 DEF Works, Saving, Holds, Tiers, Cold
  <2> QED
    BY <1>0, <1>3, <2>1, <2>2, CalmStep DEF Steps
<1>6. CASE GraphSaves(c)
  <2>1. /\ mine'[c].turns = mine[c].turns \cup {c} /\ ~mid'[c]
        /\ at'[c] = "wait" /\ Goto(c, "wait")
    BY <1>0, <1>6 DEF GraphSaves, Final, Goto, Copy
  <2>2. warm' # NoCopy
    BY <1>6, Copies DEF GraphSaves
  <2>3. Works(c)' /\ Saving(c)'
    BY <1>0, <1>2, <2>1, <2>2 DEF Works, Saving, Holds
  <2> QED
    BY <1>0, <1>3, <2>1, <2>3, CalmStep DEF Steps
<1> QED
  BY <1>4, <1>5, <1>6, <1>7, <1>8 DEF Turn

LEMMA SaveCalm ==
  ASSUME IInv, NEW c \in Clients, Save(c) \/ Drained(c), calm'
  PROVE  CalmInv'
<1>0. /\ calm /\ Busy(c)
      /\ mine[c] \in Copy /\ DOMAIN mine = Clients /\ DOMAIN mid = Clients /\ DOMAIN at = Clients
  BY DEF Save, LockSession, Conflict, SaveHot, SaveWarm, SaveAgain, SaveFeedback, Drained,
     Busy, Resting, boundVars, IInv, TypeOK
<1>1. Works(c) /\ (~Saving(c) => Tiers) /\ mine[c] # NoCopy
  BY <1>0, Copies, CalmTiers
<1>2. Holds(mine[c])
  BY <1>1 DEF Save, LockSession, Conflict, SaveHot, SaveWarm, SaveAgain, SaveFeedback, Drained,
     Works, Resting
<1>3. UNCHANGED <<arch, restore, mid>>
  BY DEF Save, LockSession, Conflict, SaveHot, SaveWarm, SaveAgain, SaveFeedback, Drained
<1>4. CASE Drained(c)
  <2>1. PICK a \in {"wait", "done"} : Goto(c, a) /\ at'[c] = a /\ at[c] = "drained"
    BY <1>0, <1>4 DEF Drained, Goto
  <2>2. c \notin Chats
    BY <2>1 DEF IInv, TypeOK
  <2>3. mine'[c].turns = mine[c].turns /\ UNCHANGED <<hot, warm, rows, pointer, acked>>
    BY <1>0, <1>4 DEF Drained, Copy, tierVars, boundVars
  <2>4. Works(c)' /\ Tiers'
    BY <1>1, <1>2, <2>1, <2>2, <2>3 DEF Works, Saving, Holds, Resting, Tiers, Cold
  <2> QED
    BY <1>0, <1>3, <2>1, <2>4, CalmStep DEF Steps
<1>5. CASE LockSession(c)
  <2>1. Goto(c, "saveHot") /\ at'[c] = "saveHot" /\ at[c] = "wait"
    BY <1>0, <1>5 DEF LockSession, Goto
  <2>2. UNCHANGED <<hot, warm, rows, pointer, mine, acked>>
    BY <1>5 DEF LockSession, tierVars
  <2>3. Works(c)' /\ (~Saving(c) => Tiers)'
    BY <1>1, <1>2, <1>3, <2>1, <2>2 DEF Works, Saving, Holds, Tiers, Cold
  <2> QED
    BY <1>0, <1>3, <2>1, <2>3, CalmStep DEF Steps
<1>6. CASE SaveHot(c)
  <2>1. Goto(c, "saveWarm") /\ at'[c] = "saveWarm" /\ at[c] = "saveHot"
    BY <1>0, <1>6 DEF SaveHot, Goto
  <2>2. hot' = mine[c] /\ UNCHANGED <<warm, rows, pointer, mine, acked>>
    BY <1>6 DEF SaveHot, boundVars
  <2>3. Works(c)' /\ (~Saving(c) => Tiers)'
    BY <1>1, <1>2, <1>3, <2>1, <2>2 DEF Works, Saving, Holds, Tiers, Cold
  <2> QED
    BY <1>0, <1>3, <2>1, <2>3, CalmStep DEF Steps
<1>7. CASE SaveWarm(c)
  <2>1. PICK a \in {"saveAgain", "saveFeedback"} :
          Goto(c, a) /\ at'[c] = a /\ at[c] = "saveWarm" /\ (a = "saveFeedback" => c \notin Chats)
    BY <1>0, <1>7 DEF SaveWarm, Goto
  <2>2. warm' = mine[c] /\ UNCHANGED <<hot, rows, pointer, mine, acked>>
    BY <1>7 DEF SaveWarm, boundVars
  <2>3. Works(c)' /\ (~Saving(c) => Tiers)'
    BY <1>1, <1>2, <1>3, <2>1, <2>2 DEF Works, Saving, Holds, Tiers, Cold
  <2> QED
    BY <1>0, <1>3, <2>1, <2>3, CalmStep DEF Steps
<1>8. CASE SaveAgain(c)
  <2>1. PICK a \in {"graph", "done"} :
          Goto(c, a) /\ at'[c] = a /\ at[c] = "saveAgain" /\ (a = "done" <=> ~mid[c])
    BY <1>0, <1>8 DEF SaveAgain, AfterSave, Goto
  <2>2. /\ hot' = mine[c] /\ UNCHANGED <<warm, rows, pointer, mine>>
        /\ acked' = IF mid[c] THEN acked ELSE acked \cup {c}
    BY <1>8 DEF SaveAgain
  <2>3. c \in Chats
    BY <2>1 DEF IInv, TypeOK
  <2>4. Holds(mine[c])'
    BY <1>1, <1>2, <2>1, <2>2, <2>3 DEF Works, Saving, Holds
  <2>5. Works(c)'
    BY <2>1, <2>4 DEF Works, Saving
  <2>6. Tiers'
    <3>1. CASE mid[c]
      BY <1>1, <1>2, <2>2, <3>1 DEF Saving, Tiers, Holds, Cold
    <3>2. CASE ~mid[c]
      BY <1>1, <2>1, <2>2, <2>3, <2>4, <3>2 DEF Works, Saving, Tiers
    <3> QED
      BY <3>1, <3>2
  <2> QED
    BY <1>0, <1>3, <2>1, <2>5, <2>6, CalmStep DEF Steps
<1>9. CASE SaveFeedback(c)
  <2>1. Goto(c, "done") /\ at'[c] = "done" /\ at[c] = "saveFeedback"
    BY <1>0, <1>9 DEF SaveFeedback, Goto
  <2>2. UNCHANGED <<hot, warm, rows, pointer, mine, acked>>
    BY <1>9 DEF SaveFeedback, boundVars
  <2>3. Works(c)' /\ Tiers'
    BY <1>1, <2>1, <2>2 DEF Works, Saving, Resting, Tiers, Holds, Cold
  <2> QED
    BY <1>0, <1>3, <2>1, <2>3, CalmStep DEF Steps
<1>10. CASE Conflict(c)
  BY <1>10 DEF Conflict
<1> QED
  BY <1>4, <1>5, <1>6, <1>7, <1>8, <1>9, <1>10 DEF Save

LEMMA FailsCalm ==
  ASSUME IInv, NEW c \in Clients, Fails(c) \/ LeaseExpires(c), calm'
  PROVE  CalmInv'
<1>1. LeaseBreaks(c) \/ LeaseExpires(c)
  BY DEF Fails, ReadRaises, WriteBackRaises, GraphOpenRaises, GraphSaveRaises, SaveRaises, Crash
<1>2. UNCHANGED <<guest, tierVars, clientVars, arch, restore, acked, calm>>
  BY <1>1 DEF LeaseBreaks, LeaseExpires, boundVars
<1> QED
  BY <1>2 DEF IInv, CalmInv, Alone, Archived, Works, Tiers, Busy, Saving, Holds, Cold,
              tierVars, clientVars

\* While the archiver is at work all clients rest.
LEMMA ArchiverAlone ==
  ASSUME IInv, calm, arch # Off
  PROVE  restore = NoCopy /\ Archived /\ Tiers /\ \A c \in Clients : ~Busy(c)
<1>1. \A c \in Clients : ~Busy(c)
  BY DEF IInv, CalmInv, Alone
<1>2. \A c \in Clients : ~Saving(c)
  BY <1>1 DEF Busy, Saving, Resting
<1> QED
  BY <1>1, <1>2 DEF IInv, CalmInv, Alone

LEMMA ArchiverStep ==
  ASSUME \A c \in Clients : ~Busy(c), restore = NoCopy, UNCHANGED <<at, restore>>,
         Archived', Tiers'
  PROVE  CalmInv'
<1>1. \A c \in Clients : at'[c] \in Resting
  BY DEF Busy
<1> QED
  BY <1>1 DEF CalmInv, Alone, Busy, Works, Saving, Resting

LEMMA ArchiveCalm ==
  ASSUME IInv, Archive, calm'
  PROVE  CalmInv'
<1>0. /\ calm /\ arch # Off /\ UNCHANGED <<at, restore, guest>>
      /\ arch = [at |-> arch.at, task |-> arch.task, copy |-> arch.copy, row |-> arch.row]
      /\ DOMAIN rows = AllRows /\ arch.copy \in Copy \cup {NoCopy}
  <2>1. calm' = calm /\ UNCHANGED <<at, restore, guest>>
    BY DEF Archive, ReadSnapshot, FindRow, RememberRow, CommitRow, PointToRow, DropWarm,
       clientVars, boundVars
  <2>2. arch.at # "off"
    BY DEF Archive, ReadSnapshot, FindRow, RememberRow, CommitRow, PointToRow, DropWarm
  <2>3. arch # Off
    BY <2>2 DEF Off
  <2> QED
    BY <2>1, <2>3 DEF IInv, Recoverable, Archiving, TypeOK
<1>1. restore = NoCopy /\ Archived /\ Tiers /\ \A c \in Clients : ~Busy(c)
  BY <1>0, ArchiverAlone
<1>2. CASE ReadSnapshot
  <2>1. UNCHANGED <<hot, warm, rows, pointer, acked>> /\ arch.at = "read"
    BY <1>2 DEF ReadSnapshot, tierVars, boundVars
  <2>2. Tiers'
    BY <1>1, <2>1 DEF Tiers, Holds, Cold
  <2>3. Archived'
    BY <1>0, <1>1, <1>2, <2>1 DEF ReadSnapshot, Archived, Tiers, Holds, Off
  <2> QED
    BY <1>0, <1>1, <2>2, <2>3, ArchiverStep
<1>3. CASE FindRow
  <2>1. UNCHANGED <<hot, warm, rows, pointer, acked>> /\ arch.at = "find"
    BY <1>3 DEF FindRow, tierVars, boundVars
  <2>2. Tiers'
    BY <1>1, <2>1 DEF Tiers, Holds, Cold
  <2>3. PICK a \in {"commit", "remember"}, r \in Rows : arch' = [arch EXCEPT !.at = a, !.row = r]
    BY <1>3 DEF FindRow, RowOf, FreshRows, NoRow
  <2>4. Archived'
    BY <1>0, <1>1, <2>1, <2>3 DEF Archived, Holds
  <2> QED
    BY <1>0, <1>1, <2>2, <2>4, ArchiverStep
<1>4. CASE RememberRow
  <2>1. UNCHANGED <<hot, rows, pointer, acked>> /\ arch.at = "remember"
    BY <1>4 DEF RememberRow, boundVars
  <2>2. warm'.turns = arch.copy.turns /\ warm' # NoCopy
    <3>1. arch.row \in Rows /\ arch.copy \in Copy
      BY <1>0, <2>1 DEF IInv, Recoverable, Archiving
    <3>2. warm' = [arch.copy EXCEPT !.conv = arch.row]
      BY <1>4 DEF RememberRow
    <3> QED
      BY <3>1, <3>2, Copies DEF Copy
  <2>3. Holds(arch.copy)
    BY <1>1, <2>1 DEF Archived
  <2>4. Tiers'
    BY <1>1, <2>1, <2>2, <2>3 DEF Tiers, Holds
  <2>5. Archived'
    BY <1>0, <1>1, <1>4, <2>1 DEF RememberRow, Archived, Holds
  <2> QED
    BY <1>0, <1>1, <2>4, <2>5, ArchiverStep
<1>5. CASE CommitRow
  <2>1. UNCHANGED <<hot, warm, pointer, acked>> /\ arch.at = "commit" /\ arch.row \in Rows
    BY <1>5 DEF CommitRow, boundVars, IInv, Recoverable, Archiving
  <2>2. rows' = [rows EXCEPT ![arch.row] = arch.copy] /\ arch' = [arch EXCEPT !.at = "point"]
    BY <1>5 DEF CommitRow
  <2>3. Holds(arch.copy)
    BY <1>1, <2>1 DEF Archived
  <2>4. rows'[arch.row] = arch.copy /\ rows'[Own] = rows[Own]
    BY <1>0, <2>1, <2>2, MaxRowsAssumption DEF AllRows, Rows, Own
  <2>5. Holds(Cold) => Holds(Cold)'
    <3>1. CASE pointer = arch.row
      BY <1>0, <2>1, <2>3, <2>4, <3>1 DEF Cold, Holds, IInv, Recoverable, Archiving, NoRow, Rows
    <3>2. CASE pointer # arch.row
      BY <1>0, <2>1, <2>2, <2>4, <3>2 DEF Cold, Holds, IInv, Recoverable, NoRow
    <3> QED
      BY <3>1, <3>2
  <2>6. Tiers'
    BY <1>1, <2>1, <2>5 DEF Tiers, Holds
  <2>7. Archived'
    BY <1>0, <1>1, <2>1, <2>2, <2>3, <2>4 DEF Archived, Holds
  <2> QED
    BY <1>0, <1>1, <2>6, <2>7, ArchiverStep
<1>6. CASE PointToRow
  <2>1. UNCHANGED <<hot, warm, rows, acked>> /\ arch.at = "point" /\ pointer' = arch.row
    BY <1>6 DEF PointToRow, boundVars
  <2>2. arch.row \in Rows /\ rows[arch.row] # NoCopy
    BY <2>1 DEF IInv, Recoverable, Archiving
  <2>3. Holds(rows[arch.row])
    BY <1>1, <2>1 DEF Archived
  <2>4. Holds(Cold)'
    BY <2>1, <2>2, <2>3 DEF Cold, Holds, NoRow, Rows
  <2>5. Tiers'
    BY <1>1, <2>1, <2>4 DEF Tiers, Holds
  <2>6. Archived'
    BY <1>0, <1>6, <2>4 DEF PointToRow, Archived, Off
  <2> QED
    BY <1>0, <1>1, <2>5, <2>6, ArchiverStep
<1>7. CASE DropWarm
  <2>1. UNCHANGED <<hot, rows, pointer>> /\ arch.at = "drop" /\ warm' = NoCopy /\ arch' = Off
        /\ acked' = IF guest THEN {} ELSE acked
    BY <1>7 DEF DropWarm
  <2>2. guest \/ Holds(Cold)
    BY <1>1, <2>1 DEF Archived
  <2>3. Tiers'
    BY <1>1, <2>1, <2>2 DEF Tiers, Holds, Cold
  <2>4. Archived'
    BY <2>1 DEF Archived, Off
  <2> QED
    BY <1>0, <1>1, <2>3, <2>4, ArchiverStep
<1> QED
  BY <1>2, <1>3, <1>4, <1>5, <1>6, <1>7 DEF Archive

LEMMA StartArchiveCalm ==
  ASSUME IInv, NEW task \in Tasks, StartArchive(task), calm'
  PROVE  CalmInv'
<1>1. calm /\ Quiet /\ UNCHANGED <<at, restore, guest, hot, warm, rows, pointer, acked>>
  BY DEF StartArchive, Starts, tierVars, clientVars
<1>2. restore = NoCopy /\ \A c \in Clients : ~Busy(c) /\ ~Saving(c)
  BY <1>1 DEF Quiet, Busy, Saving, Resting
<1>3. Tiers'
  BY <1>1, <1>2 DEF IInv, CalmInv, Tiers, Holds, Cold
<1>4. arch'.at \in {"drop", "read"} /\ (arch'.at = "drop" => guest)
  BY DEF StartArchive, Off
<1>5. Archived'
  BY <1>1, <1>4 DEF Archived
<1> QED
  BY <1>1, <1>2, <1>3, <1>5, ArchiverStep

LEMMA ExpiryCalm ==
  ASSUME IInv, HotExpires \/ WarmExpires, calm'
  PROVE  CalmInv'
<1>0. /\ calm /\ UNCHANGED <<rows, pointer, at, mine, mid, arch, restore, guest>>
      /\ acked' \subseteq acked
  BY DEF HotExpires, WarmExpires, clientVars
<1>1. /\ Alone /\ Archived /\ \A c \in Clients : Works(c)
      /\ (\A c \in Clients : ~Saving(c)) => Tiers
  BY <1>0 DEF IInv, CalmInv
<1>2. Alone' /\ Archived'
  BY <1>0, <1>1 DEF Alone, Archived, Busy, Holds, Cold
<1>3. CASE HotExpires
  <2>1. hot' = NoCopy /\ UNCHANGED <<warm, acked>>
    BY <1>3 DEF HotExpires
  <2>2. \A c \in Clients : Works(c)' /\ (Saving(c)' <=> Saving(c))
    BY <1>0, <1>1, <2>1 DEF Works, Saving, Holds
  <2>3. (\A c \in Clients : ~Saving(c)) => Tiers'
    BY <1>0, <1>1, <2>1 DEF Tiers, Holds, Cold
  <2> QED
    BY <1>2, <2>2, <2>3 DEF CalmInv
<1>4. CASE WarmExpires
  <2>1. \A c \in Clients : at[c] \in Resting \cup {"readWarm", "readCold", "backHot"}
    BY <1>4 DEF WarmExpires
  <2>2. \A c \in Clients : ~Saving(c) /\ ~Saving(c)'
    BY <1>0, <2>1 DEF Saving, Resting
  <2>3. warm' = NoCopy /\ UNCHANGED hot /\ warm # NoCopy /\ (guest \/ warm.turns \subseteq Cold.turns)
        /\ acked' = IF guest THEN {} ELSE acked
    BY <1>4 DEF WarmExpires
  <2>4. Tiers'
    BY <1>0, <1>1, <2>2, <2>3 DEF Tiers, Holds, Cold
  <2>5. \A c \in Clients : Works(c)'
    BY <1>0, <1>1, <2>1, <2>2, <2>3 DEF Works, Holds, Resting
  <2> QED
    BY <1>2, <2>2, <2>4, <2>5 DEF CalmInv
<1> QED
  BY <1>3, <1>4

LEMMA CalmInit == Init => CalmInv
<1> SUFFICES ASSUME Init PROVE CalmInv
  OBVIOUS
<1>1. restore = NoCopy /\ arch.at = "off" /\ acked = {} /\ \A c \in Clients : at[c] = "idle"
  BY DEF Init, Off
<1> QED
  BY <1>1 DEF CalmInv, Alone, Archived, Works, Tiers, Busy, Saving, Holds, Resting

LEMMA CalmNext == IInv /\ [Next]_vars => CalmInv'
<1> SUFFICES ASSUME IInv, [Next]_vars, calm' PROVE CalmInv'
  BY DEF CalmInv
<1>1. ASSUME NEW c \in Clients, ClientStep(c) PROVE CalmInv'
  BY <1>1, LoadCalm, SaveCalm, TurnCalm, FailsCalm DEF ClientStep
<1>2. CASE Archive \/ \E task \in Tasks : StartArchive(task)
  BY <1>2, ArchiveCalm, StartArchiveCalm
<1>3. ~ReadFeedback /\ ~ArchiveRaises
  BY DEF ReadFeedback, ArchiveRaises
<1>4. ~RestoreHot
  BY DEF RestoreHot, IInv, CalmInv, Alone, boundVars
<1>5. CASE HotExpires \/ WarmExpires
  BY <1>5, ExpiryCalm
<1>6. CASE UNCHANGED vars
  BY <1>6 DEF vars, tierVars, clientVars, boundVars, IInv, CalmInv, Alone, Archived, Works,
     Tiers, Busy, Saving, Holds, Cold
<1> QED
  BY <1>1, <1>2, <1>3, <1>4, <1>5, <1>6 DEF Next, ClientStep

\* While activities follow one another without failures, a turn that was saved
\* is in what the next one loads, from whichever tier is left
\* (core/memory.py load_state: "hot -> warm -> cold").
THEOREM SerialTurnsSurviveHolds == Spec => []SerialTurnsSurvive
<1>1. Init => IInv
  BY InitType, RecoverableInit, CalmInit DEF IInv
<1>2. IInv /\ [Next]_vars => IInv'
  BY NextType, RecoverableStep, CalmNext DEF IInv
<1>3. IInv => SerialTurnsSurvive
  <2> SUFFICES ASSUME IInv, calm, Quiet PROVE acked \subseteq Recovered.turns
    BY DEF SerialTurnsSurvive
  <2>1. \A c \in Clients : ~Saving(c)
    BY DEF Quiet, Saving, Resting
  <2>2. Tiers
    BY <2>1 DEF IInv, CalmInv
  <2> DEFINE left == IF hot # NoCopy THEN hot ELSE IF warm # NoCopy THEN warm ELSE Cold
  <2>3. left \in Copy
    BY Copies DEF Cold, IInv, TypeOK, NoRow, AllRows
  <2>4. Holds(left)
    BY <2>2 DEF Tiers
  <2> HIDE DEF left
  <2>5. Holds(OrFeedback(left))
    BY <2>3, <2>4, FeedbackHolds
  <2> QED
    BY <2>5 DEF Recovered, Holds, left
<1> QED
  BY <1>1, <1>2, <1>3, PTL DEF Spec

-----------------------------------------------------------------------------
(* The lock itself.  GrantsHold is inductive with the types.  Two quorums  *)
(* share a node (QuorumsMeet), whose key holds one token: of two savers    *)
(* that have a quorum one has lost that node's key, which is what Acquire  *)
(* of the lease asks.                                                      *)


(* Majorities of the nodes intersect: core/redlock.py counts               *)
(* "len(self._clients) // 2 + 1".                                          *)
LEMMA QuorumsMeet ==
  ASSUME NEW P \in SUBSET Nodes, NEW Q \in SUBSET Nodes, Quorum(P), Quorum(Q)
  PROVE  P \cap Q # {}
<1>1. IsFiniteSet(Nodes) /\ Cardinality(Nodes) = N
  <2>1. N >= 1 /\ N \in Nat
    BY NAssumption
  <2> QED
    BY <2>1, FS_Interval DEF Nodes
<1>2. IsFiniteSet(P) /\ IsFiniteSet(Q) /\ IsFiniteSet(P \cup Q)
  BY <1>1, FS_Subset
<1>3. Cardinality(P \cup Q) <= N
  BY <1>1, FS_Subset
<1>4. Cardinality(P \cup Q) = Cardinality(P) + Cardinality(Q) - Cardinality(P \cap Q)
  BY <1>2, FS_Union
<1>5. Cardinality(P) \in Nat /\ Cardinality(Q) \in Nat
  BY <1>2, FS_CardinalityType
<1>6. P \cap Q = {} => Cardinality(P \cap Q) = 0
  BY FS_EmptySet
<1> QED
  BY <1>3, <1>4, <1>5, <1>6, NAssumption DEF Quorum

LEMMA SufferType ==
  ASSUME spent \in [LockDisturbances -> Nat], NEW d \in LockDisturbances, Suffer(d)
  PROVE  spent' \in [LockDisturbances -> Nat]
BY DEF Suffer

LockInv == LockTypeOK /\ GrantsHold

(* The types and the grants hold initially and are kept by every step.     *)
LEMMA LockInvInit == LockInit => LockInv
BY NAssumption DEF LockInit, LockInv, LockTypeOK, GrantsHold

LEMMA LockTypeStep == LockTypeOK /\ [LockNext]_lockVars => LockTypeOK'
<1> SUFFICES ASSUME LockTypeOK, [LockNext]_lockVars PROVE LockTypeOK'
  OBVIOUS
<1> USE NAssumption DEF LockTypeOK, Nodes
<1>1. ASSUME NEW c \in Savers, SaverStep(c) PROVE LockTypeOK'
  <2>1. CASE Begin(c)
    BY <2>1 DEF Begin
  <2>2. CASE SetKey(c)
    <3>1. node[c] \in Nodes /\ node' \in [Savers -> 1..(N + 1)]
      BY <2>2 DEF SetKey, Asking
    <3>2. key' \in [Nodes -> Savers \cup {Free, Orphan}]
      BY <2>2, <3>1 DEF SetKey
    <3>3. acks' \in [Savers -> SUBSET Nodes]
      BY <2>2, <3>1 DEF SetKey
    <3> QED
      BY <2>2, <3>1, <3>2, <3>3 DEF SetKey
  <2>3. CASE SetKeyRaises(c)
    <3>1. node[c] \in Nodes /\ node' \in [Savers -> 1..(N + 1)]
      BY <2>3 DEF SetKeyRaises, Asking
    <3>2. key' \in [Nodes -> Savers \cup {Free, Orphan}]
      BY <2>3, <3>1 DEF SetKeyRaises
    <3>3. spent' \in [LockDisturbances -> Nat]
      BY <2>3, SufferType DEF SetKeyRaises, LockDisturbances
    <3> QED
      BY <2>3, <3>1, <3>2, <3>3 DEF SetKeyRaises
  <2>4. CASE Enter(c)
    BY <2>4 DEF Enter
  <2>5. CASE Retry(c)
    BY <2>5, SufferType DEF Retry, Abandoned, LockDisturbances
  <2>6. CASE GiveUp(c)
    BY <2>6 DEF GiveUp, Abandoned
  <2>7. CASE Leave(c)
    BY <2>7 DEF Leave
  <2>8. CASE DeleteKey(c)
    BY <2>8 DEF DeleteKey, Asking
  <2>9. CASE DeleteKeyRaises(c)
    BY <2>9, SufferType DEF DeleteKeyRaises, Asking, LockDisturbances
  <2>10. CASE Released(c)
    BY <2>10 DEF Released, Abandoned
  <2>11. CASE Die(c)
    BY <2>11, SufferType DEF Die, Abandoned, LockDisturbances
  <2> QED
    BY <1>1, <2>1, <2>2, <2>3, <2>4, <2>5, <2>6, <2>7, <2>8, <2>9, <2>10, <2>11
       DEF SaverStep
<1>2. ASSUME NEW n \in Nodes, ExpireOrphan(n) \/ ExpireOwned(n) PROVE LockTypeOK'
  <2>1. CASE ExpireOrphan(n)
    BY <2>1 DEF ExpireOrphan
  <2>2. CASE ExpireOwned(n)
    BY <2>2, SufferType DEF ExpireOwned, LockDisturbances
  <2> QED
    BY <1>2, <2>1, <2>2
<1>3. CASE UNCHANGED lockVars
  BY <1>3 DEF lockVars
<1> QED
  BY <1>1, <1>2, <1>3 DEF LockNext

LEMMA GrantsStep == LockInv /\ [LockNext]_lockVars => GrantsHold'
<1> SUFFICES ASSUME LockInv, [LockNext]_lockVars,
                    NEW d \in Savers, pc'[d] \in {"acquiring", "holding"},
                    NEW m \in acks'[d]
             PROVE  key'[m] = d \/ m \in lost'[d]
  BY DEF GrantsHold
<1> USE TokenAssumption DEF LockInv, LockTypeOK, GrantsHold
<1>1. ASSUME NEW c \in Savers, SaverStep(c) PROVE key'[m] = d \/ m \in lost'[d]
  <2>1. CASE Begin(c)
    BY <2>1 DEF Begin
  <2>2. CASE SetKey(c)
    BY <2>2 DEF SetKey, Asking
  <2>3. CASE SetKeyRaises(c)
    BY <2>3 DEF SetKeyRaises, Asking
  <2>4. CASE Enter(c)
    BY <2>4 DEF Enter, Asked
  <2>5. CASE Retry(c)
    BY <2>5 DEF Retry, Abandoned
  <2>6. CASE GiveUp(c)
    BY <2>6 DEF GiveUp, Abandoned
  <2>7. CASE Leave(c)
    BY <2>7 DEF Leave
  <2>8. CASE DeleteKey(c)
    BY <2>8 DEF DeleteKey, Asking
  <2>9. CASE DeleteKeyRaises(c)
    BY <2>9 DEF DeleteKeyRaises, Asking
  <2>10. CASE Released(c)
    BY <2>10 DEF Released, Abandoned
  <2>11. CASE Die(c)
    BY <2>11 DEF Die, Abandoned
  <2> QED
    BY <1>1, <2>1, <2>2, <2>3, <2>4, <2>5, <2>6, <2>7, <2>8, <2>9, <2>10, <2>11
       DEF SaverStep
<1>2. ASSUME NEW n \in Nodes, ExpireOrphan(n) \/ ExpireOwned(n)
      PROVE  key'[m] = d \/ m \in lost'[d]
  <2>1. CASE ExpireOrphan(n)
    BY <2>1 DEF ExpireOrphan
  <2>2. CASE ExpireOwned(n)
    BY <2>2 DEF ExpireOwned
  <2> QED
    BY <1>2, <2>1, <2>2
<1>3. CASE UNCHANGED lockVars
  BY <1>3 DEF lockVars
<1> QED
  BY <1>1, <1>2, <1>3 DEF LockNext

LEMMA LockInvAlways == LockSpec => []LockInv
<1>1. LockInv /\ [LockNext]_lockVars => LockInv'
  BY LockTypeStep, GrantsStep DEF LockInv
<1> QED
  BY LockInvInit, <1>1, PTL DEF LockSpec

(* Every variable keeps its type, for any number of nodes.                 *)
THEOREM LockTypes == LockSpec => []LockTypeOK
BY LockInvAlways, PTL DEF LockInv

(* What a node granted stands until it expires, for any number of nodes    *)
(* and clients (SET NX and compare-and-delete of core/redlock.py).         *)
THEOREM GrantsStand == LockSpec => []GrantsHold
BY LockInvAlways, PTL DEF LockInv

(* The non-empty quorum of a client that enters meets that of every client *)
(* inside at a node whose key only one of them can hold.                   *)
LEMMA EntersPastBroken ==
  ASSUME LockInv, NEW c \in Savers, Enter(c), lost[c] = {},
         NEW d \in Savers, pc[d] = "holding", Quorum(acks[d])
  PROVE  lost[d] # {}
<1>1. PICK n \in Nodes: n \in acks[c] /\ n \in acks[d]
  BY QuorumsMeet DEF Enter, LockInv, LockTypeOK
<1>2. key[n] = c
  BY <1>1 DEF LockInv, GrantsHold, Enter, Asked
<1>3. c # d
  BY DEF Enter, Asked
<1>4. key[n] = d \/ n \in lost[d]
  BY <1>1 DEF LockInv, GrantsHold
<1> QED
  BY <1>2, <1>3, <1>4

(* A client inside has a quorum of grants.                                 *)
InsideHasQuorum == \A c \in Savers: pc[c] = "holding" => Quorum(acks[c])

LEMMA InsideStep == LockTypeOK /\ InsideHasQuorum /\ [LockNext]_lockVars => InsideHasQuorum'
<1> SUFFICES ASSUME LockTypeOK, InsideHasQuorum, [LockNext]_lockVars,
                    NEW d \in Savers, pc'[d] = "holding"
             PROVE  Quorum(acks'[d])
  BY DEF InsideHasQuorum, Quorum
<1>1. \/ pc[d] = "holding" /\ acks'[d] = acks[d]
      \/ Enter(d) /\ acks'[d] = acks[d]
  <2> USE DEF LockTypeOK
  <2>1. ASSUME NEW c \in Savers, SaverStep(c)
        PROVE  \/ pc[d] = "holding" /\ acks'[d] = acks[d]
               \/ Enter(d) /\ acks'[d] = acks[d]
    <3>1. CASE Enter(c)
      BY <3>1 DEF Enter
    <3>2. CASE SetKey(c) \/ SetKeyRaises(c)
      BY <3>2 DEF SetKey, SetKeyRaises, Asking
    <3>3. CASE Begin(c) \/ Retry(c) \/ GiveUp(c)
      BY <3>3 DEF Begin, Retry, GiveUp, Asked
    <3>4. CASE Leave(c) \/ DeleteKey(c) \/ DeleteKeyRaises(c) \/ Released(c) \/ Die(c)
      BY <3>4 DEF Leave, DeleteKey, DeleteKeyRaises, Released, Die, Asking
    <3> QED
      BY <2>1, <3>1, <3>2, <3>3, <3>4 DEF SaverStep
  <2>2. ASSUME NEW n \in Nodes, ExpireOrphan(n) \/ ExpireOwned(n)
        PROVE  pc[d] = "holding" /\ acks'[d] = acks[d]
    BY <2>2 DEF ExpireOrphan, ExpireOwned
  <2> QED
    BY <2>1, <2>2 DEF LockNext, lockVars
<1> QED
  BY <1>1 DEF InsideHasQuorum, Enter

LInv == LockInv /\ InsideHasQuorum

LEMMA LInvAlways == LockSpec => []LInv
<1>1. LockInit => LInv
  BY LockInvInit DEF LInv, LockInit, InsideHasQuorum
<1>2. LInv /\ [LockNext]_lockVars => LInv'
  BY LockTypeStep, GrantsStep, InsideStep DEF LInv, LockInv
<1> QED
  BY <1>1, <1>2, PTL DEF LockSpec

(* Redlock is the lease: initial states are, and every step is a step of   *)
(* the lease or leaves it alone.                                           *)
LEMMA LeaseStep == LInv /\ [LockNext]_lockVars => [Lease!LeaseNext]_(Lease!leaseVars)
<1> DEFINE H == {c \in Savers: pc[c] = "holding"}
           B == {c \in Savers: pc[c] = "holding" /\ lost[c] # {}}
<1> SUFFICES ASSUME LInv, [LockNext]_lockVars
             PROVE  Lease!LeaseNext \/ (H' = H /\ B' = B)
  BY DEF Lease!leaseVars
<1> USE DEF LInv, LockInv, LockTypeOK
<1>1. ASSUME NEW c \in Savers, SaverStep(c) PROVE Lease!LeaseNext \/ (H' = H /\ B' = B)
  <2>1. CASE Enter(c)
    <3>1. c \notin H /\ H' = H \cup {c}
      BY <2>1 DEF Enter, Asked
    <3>2. CASE lost[c] # {}
      <4>1. B' = B \cup {c}
        BY <2>1, <3>2 DEF Enter
      <4>2. Lease!Acquire(c)
        BY <3>1, <4>1 DEF Lease!Acquire
      <4> QED
        BY <4>2 DEF Lease!LeaseNext
    <3>3. CASE lost[c] = {}
      <4>1. B' = B
        BY <2>1, <3>3 DEF Enter, Asked
      <4>2. H \subseteq B
        BY <2>1, <3>3, EntersPastBroken DEF InsideHasQuorum
      <4>3. Lease!Acquire(c)
        BY <3>1, <4>1, <4>2 DEF Lease!Acquire
      <4> QED
        BY <4>3 DEF Lease!LeaseNext
    <3> QED
      BY <3>2, <3>3
  <2>2. CASE Leave(c) \/ (Die(c) /\ pc[c] = "holding")
    <3>1. c \in H /\ H' = H \ {c} /\ B' = B \ {c}
      BY <2>2 DEF Leave, Die
    <3>2. Lease!Release(c)
      BY <3>1 DEF Lease!Release
    <3> QED
      BY <3>2 DEF Lease!LeaseNext
  <2>3. CASE Die(c) /\ pc[c] # "holding"
    BY <2>3 DEF Die
  <2>4. CASE SetKey(c) \/ SetKeyRaises(c)
    BY <2>4 DEF SetKey, SetKeyRaises
  <2>5. CASE Begin(c) \/ Retry(c) \/ GiveUp(c)
    BY <2>5 DEF Begin, Retry, GiveUp, Asked
  <2>6. CASE DeleteKey(c) \/ DeleteKeyRaises(c) \/ Released(c)
    BY <2>6 DEF DeleteKey, DeleteKeyRaises, Released
  <2> QED
    BY <1>1, <2>1, <2>2, <2>3, <2>4, <2>5, <2>6 DEF SaverStep
<1>2. ASSUME NEW n \in Nodes, ExpireOrphan(n) PROVE H' = H /\ B' = B
  BY <1>2 DEF ExpireOrphan
<1>3. ASSUME NEW n \in Nodes, ExpireOwned(n) PROVE Lease!LeaseNext \/ (H' = H /\ B' = B)
  <2>1. PICK c \in Savers: lost' = [lost EXCEPT ![c] = @ \cup {n}] /\ pc' = pc
    BY <1>3 DEF ExpireOwned
  <2>2. CASE pc[c] = "holding"
    <3>1. c \in H /\ H' = H /\ B' = B \cup {c}
      <4>1. lost'[c] = lost[c] \cup {n} /\ \A d \in Savers: d # c => lost'[d] = lost[d]
        BY <2>1
      <4> QED
        BY <2>1, <2>2, <4>1
    <3>2. Lease!Break(c)
      BY <3>1 DEF Lease!Break
    <3> QED
      BY <2>1, <3>2 DEF Lease!LeaseNext
  <2>3. CASE pc[c] # "holding"
    BY <2>1, <2>3
  <2> QED
    BY <2>2, <2>3
<1>4. CASE UNCHANGED lockVars
  BY <1>4 DEF lockVars
<1> QED
  BY <1>1, <1>2, <1>3, <1>4 DEF LockNext

(* For any number of nodes and clients the quorum lock is a lease: a       *)
(* client enters past another only when one of the two has lost a key.     *)
THEOREM LockIsLease == LockSpec => LeaseHolds
<1>1. LockInit => Lease!LeaseInit
  BY DEF LockInit, Lease!LeaseInit
<1> QED
  BY <1>1, LeaseStep, LInvAlways, PTL DEF LockSpec, LeaseHolds, Lease!LeaseSpec
=============================================================================
