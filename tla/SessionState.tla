---------------------------- MODULE SessionState ----------------------------
(***************************************************************************)
(* The state of one conversation and everybody who writes it: the hot and  *)
(* warm copies in Redis, the cold rows and their pointer, the copy in the  *)
(* job row (core/memory.py, api/chat_runtime.py), the turns and the end of *)
(* a job's stream that load it and save it under the lock, the graph that  *)
(* writes the same keys without it (graph/session_manager.py), the restore *)
(* on every reconnect, and the archiver (worker/memory_tasks.py).          *)
(*                                                                         *)
(* Every Redis or database call is a step of its own; only the fallback of *)
(* load_state to the job row is read together with the tier that turned    *)
(* out to be empty, and the graph's session manager goes over both keys in *)
(* one step.  The lock is the lease of SessionLease.                       *)
(***************************************************************************)
EXTENDS SessionLease, Naturals, FiniteSetsExt

CONSTANTS
  Chats,    \* the clients that are turns; the others are ends of job streams
  MaxRows,  \* bound: how many Conversation rows are ever inserted
  Budget,   \* bound: how often each kind of disturbance may happen
  MaxDisturbances  \* bound: how many may happen altogether

Disturbances == {"fault", "ttl", "archive"}

ASSUME ChatsAssumption == Chats \subseteq Clients
ASSUME MaxRowsAssumption == MaxRows \in Nat \ {0}
ASSUME BudgetAssumption == Budget \in [Disturbances -> Nat]
ASSUME MaxDisturbancesAssumption == MaxDisturbances \in Nat

Rows == 1..MaxRows
NoRow == 0
Own == MaxRows + 1      \* the row that has the session's id for its own
AllRows == Rows \cup {Own}

(* A copy of the state: the turns in recent_messages, whether the profile  *)
(* says anything, whether phase is "planning", whose it says it is         *)
(* (user_id and user_role, user_id only, neither), and conversation_id.    *)
Copy == [turns: SUBSET Chats, profile: BOOLEAN, planning: BOOLEAN,
         who: {"full", "user", "nobody"}, conv: Rows \cup {NoRow}]

Blank == [turns |-> {}, profile |-> FALSE, planning |-> FALSE, who |-> "nobody",
          conv |-> NoRow]
NoCopy == [Blank EXCEPT !.conv = MaxRows + 1]  \* the key is absent

VARIABLES
  guest,     \* the role of the conversation's user
  hot, warm, rows, pointer,
  feedback,  \* user_feedback of the conversation's latest planning job
  at,        \* where each client is
  mine,      \* the copy it works on
  mid,       \* the save under way is that of intent_ready, inside the turn
  arch,      \* the archiver: where it is, its task, its snapshot and its row
  restore,   \* what restore_session_state is about to write
  acked,     \* history: the turns that were saved
  calm,      \* history: nothing failed and nothing overlapped so far
  used

tierVars   == <<hot, warm, rows, pointer, feedback>>
clientVars == <<at, mine, mid>>
boundVars  == <<acked, calm, used>>
vars == <<leaseVars, guest, tierVars, clientVars, arch, restore, boundVars>>

Spent == MapThenSumSet(LAMBDA d: used[d], Disturbances)

Spend(d) ==
  /\ used[d] < Budget[d]
  /\ Spent < MaxDisturbances
  /\ used' = [used EXCEPT ![d] = @ + 1]

Off == [at |-> "off", task |-> "none", copy |-> NoCopy, row |-> NoRow]

Init ==
  /\ LeaseInit
  /\ guest \in BOOLEAN
  /\ hot = NoCopy /\ warm = NoCopy
  /\ \E o \in {NoCopy, [Blank EXCEPT !.profile = TRUE]}:  \* what POST /conversations gave
       rows = [r \in AllRows |-> IF r = Own THEN o ELSE NoCopy]
  /\ pointer = NoRow
  /\ feedback \in {NoCopy, [Blank EXCEPT !.profile = TRUE, !.planning = TRUE]}
  /\ at = [c \in Clients |-> "idle"]
  /\ mine = [c \in Clients |-> Blank]
  /\ mid = [c \in Clients |-> FALSE]
  /\ arch = Off
  /\ restore = NoCopy
  /\ acked = {}
  /\ calm = TRUE
  /\ used = [d \in Disturbances |-> 0]

Resting == {"idle", "done", "crashed"}
Quiet == (\A c \in Clients: at[c] \in Resting) /\ arch = Off /\ restore = NoCopy

\* An activity begins: is it alone?
Starts == calm' = (calm /\ Quiet)

Goto(c, a) == at' = [at EXCEPT ![c] = a]

-----------------------------------------------------------------------------
(* load_state of the connection manager, and of the memory manager under it. *)

HasPayload(s) == s.turns # {} \/ s.profile \/ s.planning \/ s.conv # NoRow

OrFeedback(s) == IF ~HasPayload(s) /\ feedback # NoCopy THEN feedback ELSE s

Loaded(c, s) ==
  /\ mine' = [mine EXCEPT ![c] = OrFeedback(s)]
  /\ Goto(c, "backHot")

ReadHot(c) ==
  /\ at[c] = "idle"
  /\ IF hot # NoCopy THEN Loaded(c, hot) ELSE Goto(c, "readWarm") /\ UNCHANGED mine
  /\ Starts
  /\ UNCHANGED <<leaseVars, guest, tierVars, mid, arch, restore, acked, used>>

ReadWarm(c) ==
  /\ at[c] = "readWarm"
  /\ IF warm # NoCopy THEN Loaded(c, warm) ELSE Goto(c, "readCold") /\ UNCHANGED mine
  /\ UNCHANGED <<leaseVars, guest, tierVars, mid, arch, restore, boundVars>>

(* The row the pointer names, else the one with the session's own id,      *)
(* which nobody but its creator has written.                               *)
Cold ==
  IF pointer # NoRow /\ rows[pointer] # NoCopy THEN rows[pointer]
  ELSE IF rows[Own] # NoCopy THEN rows[Own] ELSE Blank

ReadCold(c) ==
  /\ at[c] = "readCold"
  /\ Loaded(c, Cold)
  /\ UNCHANGED <<leaseVars, guest, tierVars, mid, arch, restore, boundVars>>

(* Any exception while reading counts as an empty session. *)
ReadRaises(c) ==
  /\ at[c] \in {"idle", "readWarm", "readCold"}
  /\ Spend("fault")
  /\ Loaded(c, Blank)
  /\ calm' = FALSE
  /\ UNCHANGED <<leaseVars, guest, tierVars, mid, arch, restore, acked>>

(* What was read is written to both tiers, without the lock. *)
WriteBackHot(c) ==
  /\ at[c] = "backHot"
  /\ hot' = mine[c]
  /\ Goto(c, "backWarm")
  /\ UNCHANGED <<leaseVars, guest, warm, rows, pointer, feedback, mine, mid, arch,
                 restore, boundVars>>

AfterLoad(c) == IF c \in Chats THEN "open" ELSE "drained"

WriteBackWarm(c) ==
  /\ at[c] = "backWarm"
  /\ warm' = mine[c]
  /\ Goto(c, AfterLoad(c))
  /\ UNCHANGED <<leaseVars, guest, hot, rows, pointer, feedback, mine, mid, arch,
                 restore, boundVars>>

WriteBackRaises(c) ==
  /\ at[c] \in {"backHot", "backWarm"}
  /\ Spend("fault")
  /\ Goto(c, AfterLoad(c))
  /\ calm' = FALSE
  /\ UNCHANGED <<leaseVars, guest, tierVars, mine, mid, arch, restore, acked>>

-----------------------------------------------------------------------------
(* A turn: the graph runs for seconds on the copy that was loaded.         *)
(* Before it starts its session manager looks for a copy of its own        *)
(* (SessionManager.load), and writes a fresh one when it finds none.       *)

Created == [Blank EXCEPT !.who = "user"]

GraphFinds(c) ==
  /\ at[c] = "open"
  /\ hot # NoCopy \/ warm # NoCopy
  /\ Goto(c, "turn")
  /\ UNCHANGED <<leaseVars, guest, tierVars, mine, mid, arch, restore, boundVars>>

GraphCreates(c) ==
  /\ at[c] = "open"
  /\ hot = NoCopy /\ warm = NoCopy
  /\ hot' = Created /\ warm' = Created
  /\ Goto(c, "turn")
  /\ UNCHANGED <<leaseVars, guest, rows, pointer, feedback, mine, mid, arch, restore, boundVars>>

(* A read that raises counts as nothing found, whatever is there; a write  *)
(* that raises leaves the turn without a graph and without a save.         *)
GraphOpenRaises(c) ==
  /\ at[c] = "open"
  /\ Spend("fault")
  /\ \/ hot' = Created /\ warm' = Created /\ Goto(c, "turn")
     \/ /\ hot = NoCopy /\ warm = NoCopy
        /\ hot' \in {hot, Created} /\ UNCHANGED warm
        /\ Goto(c, "done")
  /\ calm' = FALSE
  /\ UNCHANGED <<leaseVars, guest, rows, pointer, feedback, mine, mid, arch, restore, acked>>

Signed(s) == [s EXCEPT !.who = "full", !.profile = TRUE]

\* intent_ready: the state is saved with phase "planning" before planning starts
IntentReady(c) ==
  /\ at[c] = "turn"
  /\ mine' = [mine EXCEPT ![c] = [Signed(@) EXCEPT !.planning = TRUE]]
  /\ mid' = [mid EXCEPT ![c] = TRUE]
  /\ Goto(c, "wait")
  /\ UNCHANGED <<leaseVars, guest, tierVars, arch, restore, boundVars>>

Answer(c) ==
  /\ at[c] = "turn"
  /\ mine' = [mine EXCEPT ![c] = Signed(@)]
  /\ Goto(c, "graph")
  /\ UNCHANGED <<leaseVars, guest, tierVars, mid, arch, restore, boundVars>>

(* SessionManager.save writes what the graph ended with to the same two    *)
(* keys: the output node's patch (with the profile when it asks for more), *)
(* or the whole checkpoint when no output came, with user_id but without   *)
(* messages, role, phase or conversation_id.                               *)
GraphCopies ==
  {Blank, [Blank EXCEPT !.profile = TRUE], [Blank EXCEPT !.profile = TRUE, !.who = "user"]}

Final(c) ==
  /\ mine' = [mine EXCEPT ![c].turns = @ \cup {c}, ![c].planning = FALSE]
  /\ mid' = [mid EXCEPT ![c] = FALSE]
  /\ Goto(c, "wait")

GraphSaves(c) ==
  /\ at[c] = "graph"
  /\ \E g \in GraphCopies: hot' = g /\ warm' = g
  /\ Final(c)
  /\ UNCHANGED <<leaseVars, guest, rows, pointer, feedback, arch, restore, boundVars>>

GraphSaveRaises(c) ==
  /\ at[c] = "graph"
  /\ Spend("fault")
  /\ hot' \in GraphCopies \cup {hot}
  /\ Final(c)
  /\ calm' = FALSE
  /\ UNCHANGED <<leaseVars, guest, warm, rows, pointer, feedback, arch, restore, acked>>

(* The end of push_job_status. *)
Drained(c) ==
  /\ at[c] = "drained"
  /\ IF mine[c].planning
       THEN mine' = [mine EXCEPT ![c].planning = FALSE] /\ Goto(c, "wait")
       ELSE UNCHANGED mine /\ Goto(c, "done")
  /\ UNCHANGED <<leaseVars, guest, tierVars, mid, arch, restore, boundVars>>

-----------------------------------------------------------------------------
(* save_gathering_state (turns) and save_state (ends of job streams). *)

AfterSave(c) == IF mid[c] THEN "graph" ELSE "done"

LockSession(c) ==
  /\ at[c] = "wait"
  /\ Acquire(c)
  /\ IF c \in broken' THEN Spend("fault") ELSE UNCHANGED used
  /\ Goto(c, "saveHot")
  /\ UNCHANGED <<guest, tierVars, mine, mid, arch, restore, acked, calm>>

\* session_conflict: the lock is taken, or its nodes do not answer
Conflict(c) ==
  /\ at[c] = "wait"
  /\ \/ held # {} /\ UNCHANGED used
     \/ held = {} /\ Spend("fault")
  /\ calm' = FALSE
  /\ Goto(c, AfterSave(c))
  /\ UNCHANGED <<leaseVars, guest, tierVars, mine, mid, arch, restore, acked>>

SaveHot(c) ==
  /\ at[c] = "saveHot"
  /\ hot' = mine[c]
  /\ Goto(c, "saveWarm")
  /\ UNCHANGED <<leaseVars, guest, warm, rows, pointer, feedback, mine, mid, arch,
                 restore, boundVars>>

\* Mutant: hot_set does not refresh the warm snapshot, nor does anybody else.
SaveWarm_skipped(c) ==
  /\ at[c] = "saveWarm"
  /\ Goto(c, IF c \in Chats THEN "saveAgain" ELSE "saveFeedback")
  /\ UNCHANGED <<leaseVars, guest, tierVars, mine, mid, arch, restore, boundVars>>

SaveWarm(c) ==
  /\ at[c] = "saveWarm"
  /\ warm' = mine[c]
  /\ Goto(c, IF c \in Chats THEN "saveAgain" ELSE "saveFeedback")
  /\ UNCHANGED <<leaseVars, guest, hot, rows, pointer, feedback, mine, mid, arch,
                 restore, boundVars>>

Unlock(c) == IF c \in held THEN Release(c) ELSE UNCHANGED leaseVars

(* STATE_KEY is the key of the hot tier, which is written a second time. *)
SaveAgain(c) ==
  /\ at[c] = "saveAgain"
  /\ hot' = mine[c]
  /\ Unlock(c)
  /\ Goto(c, AfterSave(c))
  /\ acked' = IF mid[c] THEN acked ELSE acked \cup {c}
  /\ UNCHANGED <<guest, warm, rows, pointer, feedback, mine, mid, arch, restore, calm, used>>

SaveFeedback(c) ==
  /\ at[c] = "saveFeedback"
  /\ feedback' = mine[c]
  /\ Unlock(c)
  /\ Goto(c, "done")
  /\ UNCHANGED <<guest, hot, warm, rows, pointer, mine, mid, arch, restore, boundVars>>

(* A write that raises: a turn swallows it, goes on to the second hot      *)
(* write, and reports success; the end of a stream lets it through the     *)
(* "async with", whose exit releases the lock.                             *)
\* Mutant: the lock is not released when the body raises.
SaveRaises_keepsLock(c) ==
  /\ at[c] \in {"saveHot", "saveWarm", "saveAgain", "saveFeedback"}
  /\ Spend("fault")
  /\ Goto(c, IF c \in Chats /\ at[c] # "saveAgain" THEN "saveAgain" ELSE AfterSave(c))
  /\ calm' = FALSE
  /\ UNCHANGED <<leaseVars, guest, tierVars, mine, mid, arch, restore, acked>>

SaveRaises(c) ==
  /\ at[c] \in {"saveHot", "saveWarm", "saveAgain", "saveFeedback"}
  /\ Spend("fault")
  /\ IF c \in Chats /\ at[c] # "saveAgain"
       THEN Goto(c, "saveAgain") /\ UNCHANGED leaseVars
       ELSE Goto(c, AfterSave(c)) /\ Unlock(c)
  /\ calm' = FALSE
  /\ UNCHANGED <<guest, tierVars, mine, mid, arch, restore, acked>>

(* The process dies; its lease stays until the keys expire. *)
Crash(c) ==
  /\ at[c] \notin Resting
  /\ Spend("fault")
  /\ Goto(c, "crashed")
  /\ calm' = FALSE
  /\ UNCHANGED <<leaseVars, guest, tierVars, mine, mid, arch, restore, acked>>

LeaseExpires(c) ==
  /\ at[c] = "crashed"
  /\ Release(c)
  /\ UNCHANGED <<guest, tierVars, clientVars, arch, restore, boundVars>>

LeaseBreaks(c) ==
  /\ at[c] # "crashed"
  /\ Break(c)
  /\ Spend("fault")
  /\ UNCHANGED <<guest, tierVars, clientVars, arch, restore, acked, calm>>

-----------------------------------------------------------------------------
(* restore_session_state, on every stream that is opened. *)

ReadFeedback ==
  /\ restore = NoCopy
  /\ feedback # NoCopy
  /\ Spend("fault")
  /\ restore' = feedback
  /\ calm' = FALSE
  /\ UNCHANGED <<leaseVars, guest, tierVars, clientVars, arch, acked>>

RestoreHot ==
  /\ restore # NoCopy
  /\ hot' = restore
  /\ restore' = NoCopy
  /\ UNCHANGED <<leaseVars, guest, warm, rows, pointer, feedback, clientVars, arch, boundVars>>

-----------------------------------------------------------------------------
(* The archiver: archive_session (after a job, or half an hour after the   *)
(* stream of a registered user closed), archive_active_sessions (every     *)
(* five minutes, over the hot keys), compact_stale_sessions (over the warm *)
(* keys, which it then deletes), all through archive_to_cold.              *)

\* The user_id and user_role that each task passes on, when it does.
ArchivedAs(task) ==
  CASE task = "after_job"  -> IF guest THEN {"full"} ELSE {"full", "user"}
    [] task = "disconnect" -> IF guest THEN {} ELSE {"user"}
    [] task = "active"     -> IF hot = NoCopy THEN {} ELSE {hot.who}
    [] task = "compact"    -> IF warm = NoCopy THEN {} ELSE {warm.who}

Tasks == {"after_job", "disconnect", "active", "compact"}

StartArchive(task) ==
  /\ arch = Off
  /\ Spend("archive")
  /\ task = "after_job" => \E c \in Clients \ Chats: at[c] = "done"
  /\ \E who \in ArchivedAs(task) \ {"nobody"}:
       IF guest /\ who = "full"
         THEN task = "after_job" /\ arch' = [Off EXCEPT !.at = "drop", !.task = task]
         ELSE arch' = [Off EXCEPT !.at = "read", !.task = task]
  /\ Starts
  /\ UNCHANGED <<leaseVars, guest, tierVars, clientVars, restore, acked>>

ReadSnapshot ==
  /\ arch.at = "read"
  /\ arch' = IF warm = NoCopy THEN Off ELSE [arch EXCEPT !.at = "find", !.copy = warm]
  /\ UNCHANGED <<leaseVars, guest, tierVars, clientVars, restore, boundVars>>

RowOf(copy) == IF copy.conv \in Rows /\ rows[copy.conv] # NoCopy THEN copy.conv ELSE NoRow

FreshRows == {r \in Rows: r # warm.conv /\ \A q \in r..MaxRows: rows[q] = NoCopy}

FindRow ==
  /\ arch.at = "find"
  /\ IF RowOf(arch.copy) # NoRow
       THEN arch' = [arch EXCEPT !.at = "commit", !.row = arch.copy.conv]
       ELSE \E r \in FreshRows: arch' = [arch EXCEPT !.at = "remember", !.row = r]
  /\ UNCHANGED <<leaseVars, guest, tierVars, clientVars, restore, boundVars>>

\* Mutant: the pointer is set inside the transaction, before its commit.
RememberRow_points ==
  /\ arch.at = "remember"
  /\ warm' = [arch.copy EXCEPT !.conv = arch.row]
  /\ pointer' = arch.row
  /\ arch' = [arch EXCEPT !.at = "commit"]
  /\ UNCHANGED <<leaseVars, guest, hot, rows, feedback, clientVars, restore, boundVars>>

(* The snapshot goes back to the warm tier with the id of the new row, and *)
(* overwrites what was saved there meanwhile.                              *)
RememberRow ==
  /\ arch.at = "remember"
  /\ warm' = [arch.copy EXCEPT !.conv = arch.row]
  /\ arch' = [arch EXCEPT !.at = "commit"]
  /\ UNCHANGED <<leaseVars, guest, hot, rows, pointer, feedback, clientVars, restore, boundVars>>

CommitRow ==
  /\ arch.at = "commit"
  /\ rows' = [rows EXCEPT ![arch.row] = arch.copy]
  /\ arch' = [arch EXCEPT !.at = "point"]
  /\ UNCHANGED <<leaseVars, guest, hot, warm, pointer, feedback, clientVars, restore, boundVars>>

PointToRow ==
  /\ arch.at = "point"
  /\ pointer' = arch.row
  /\ arch' = IF arch.task = "compact" THEN [arch EXCEPT !.at = "drop"] ELSE Off
  /\ UNCHANGED <<leaseVars, guest, hot, warm, rows, feedback, clientVars, restore, boundVars>>

DropWarm ==
  /\ arch.at = "drop"
  /\ warm' = NoCopy
  /\ arch' = Off
  /\ acked' = IF guest THEN {} ELSE acked  \* a guest's session ends with its warm copy
  /\ UNCHANGED <<leaseVars, guest, hot, rows, pointer, feedback, clientVars, restore, calm, used>>

(* The task fails; what is not committed is rolled back. *)
ArchiveRaises ==
  /\ arch # Off
  /\ Spend("fault")
  /\ arch' = Off
  /\ calm' = FALSE
  /\ UNCHANGED <<leaseVars, guest, tierVars, clientVars, restore, acked>>

HotExpires ==
  /\ hot # NoCopy
  /\ Spend("ttl")
  /\ hot' = NoCopy
  /\ UNCHANGED <<leaseVars, guest, warm, rows, pointer, feedback, clientVars, arch, restore,
                 acked, calm>>

(* A day after its last write, so nobody is at work who may have written   *)
(* it.  A registered user's warm copy has been archived by then            *)
(* (archive_active_sessions runs every five minutes); a guest's session    *)
(* ends here.                                                              *)
WarmExpires ==
  /\ warm # NoCopy /\ hot = NoCopy
  /\ \A c \in Clients: at[c] \in Resting \cup {"readWarm", "readCold", "backHot"}
  /\ guest \/ warm.turns \subseteq Cold.turns
  /\ warm' = NoCopy
  /\ acked' = IF guest THEN {} ELSE acked
  /\ UNCHANGED <<leaseVars, guest, hot, rows, pointer, feedback, clientVars, arch, restore, calm, used>>

-----------------------------------------------------------------------------
(* One step of the code of client c, and the same with its failures. *)
Load(c)  == ReadHot(c) \/ ReadWarm(c) \/ ReadCold(c) \/ WriteBackHot(c) \/ WriteBackWarm(c)
Turn(c)  == GraphFinds(c) \/ GraphCreates(c) \/ IntentReady(c) \/ Answer(c) \/ GraphSaves(c)
Save(c)  == \/ LockSession(c) \/ Conflict(c) \/ SaveHot(c) \/ SaveWarm(c)
            \/ SaveAgain(c) \/ SaveFeedback(c)
Fails(c) == \/ ReadRaises(c) \/ WriteBackRaises(c) \/ GraphOpenRaises(c)
            \/ GraphSaveRaises(c) \/ SaveRaises(c) \/ Crash(c) \/ LeaseBreaks(c)

Archive == \/ ReadSnapshot \/ FindRow \/ RememberRow \/ CommitRow \/ PointToRow \/ DropWarm

Next ==
  \/ \E c \in Clients:
       \/ Load(c) \/ Save(c) \/ Drained(c) \/ LeaseExpires(c) \/ Fails(c)
       \/ c \in Chats /\ Turn(c)
  \/ ReadFeedback \/ RestoreHot
  \/ \E task \in Tasks: StartArchive(task)
  \/ Archive \/ ArchiveRaises
  \/ HotExpires \/ WarmExpires

Spec == Init /\ [][Next]_vars

(* The code of a client runs on (not ReadHot, which a message starts), and *)
(* the keys of a dead holder expire.                                       *)
RunsOn(c) ==
  /\ at[c] # "idle"
  /\ Load(c) \/ Save(c) \/ Drained(c) \/ LeaseExpires(c) \/ (c \in Chats /\ Turn(c))

FairSpec == Spec /\ \A c \in Clients: WF_vars(RunsOn(c))

-----------------------------------------------------------------------------
Steps == {"idle", "readWarm", "readCold", "backHot", "backWarm", "open", "turn", "drained",
          "graph", "wait", "saveHot", "saveWarm", "saveAgain",
          "saveFeedback", "done", "crashed"}

TypeOK ==
  /\ guest \in BOOLEAN
  /\ {hot, warm, feedback, restore} \subseteq Copy \cup {NoCopy}
  /\ rows \in [AllRows -> Copy \cup {NoCopy}]
  /\ pointer \in Rows \cup {NoRow}
  /\ at \in [Clients -> Steps]
  /\ mine \in [Clients -> Copy]
  /\ mid \in [Clients -> BOOLEAN]
  /\ \A c \in Clients \ Chats: ~mid[c] /\ at[c] \notin {"open", "turn", "graph", "saveAgain"}
  /\ \A c \in Chats: at[c] # "drained"
  /\ arch \in [at: {"off", "read", "find", "remember", "commit", "point", "drop"},
              task: Tasks \cup {"none"}, copy: Copy \cup {NoCopy}, row: Rows \cup {NoRow}]
  /\ held \subseteq Clients /\ broken \subseteq held
  /\ acked \subseteq Chats /\ calm \in BOOLEAN
  /\ used \in [Disturbances -> Nat]

(* The pointer with which a session is recovered after both Redis copies   *)
(* are gone names a committed row, whatever fails in the middle of         *)
(* archive_to_cold (core/memory.py: commit, then the pointer).             *)
PointerNamesRow == pointer # NoRow => rows[pointer] # NoCopy

(* As long as activities follow one another, without failures and without  *)
(* a reconnect that restores the job's copy, a saved turn is in what the   *)
(* next turn loads: through the blank copies the graph writes in between,  *)
(* the expiry of either tier, compaction and the choice of the cold row    *)
(* (core/memory.py load_state: "hot -> warm -> cold").                     *)
Recovered ==
  OrFeedback(IF hot # NoCopy THEN hot ELSE IF warm # NoCopy THEN warm ELSE Cold)

SerialTurnsSurvive == calm /\ Quiet => acked \subseteq Recovered.turns

(* The session does not stay locked: a body that raises releases the lock, *)
(* the lease of a process that died expires (core/memory.py acquire_lock,  *)
(* its finally).                                                           *)
NeverLockedForever == []<>(held = {})
=============================================================================
