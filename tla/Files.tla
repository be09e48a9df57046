-------------------------------- MODULE Files --------------------------------
(***************************************************************************)
(* The files of one session on the disk all processes share: uploads, the  *)
(* turns that use and clean them, the files an agent writes, removal, and  *)
(* the background sweep by age.  A session is a user's, with one agent and *)
(* with one conversation or without any; sessions share no file.           *)
(*                                                                         *)
(* FileManagementService is built for each request, so its cache lives as  *)
(* long as the request and the state is the disk.  A file has an original, *)
(* stored under the user's filename, and two sidecars named by its id,     *)
(* written and removed together.                                           *)
(***************************************************************************)
EXTENDS Integers, FiniteSets

CONSTANTS Names,     \* filenames
          Turns,     \* chat turns that may overlap
          MaxFiles   \* bound on the sidecars ever written

ASSUME MaxFilesAssumption == MaxFiles \in Nat

Trees == {"ephemeral", "persistent"}
Ids == 1 .. MaxFiles
Output == "output"   \* the name an agent gives to what it writes
None == "none"

(* The directories of originals: ephemeral/<session>, conversations/<id> and *)
(* the output directory of the workspace.                                    *)
Places == ({"ephemeral", "conversations"} \X Names) \union {<<"output", Output>>}
OutputPlace == <<"output", Output>>
Meta == [tree : Trees, place : Places, old : BOOLEAN]

VARIABLES memory,   \* the agent's has_memory
          conv,     \* the session has a conversation
          meta,     \* the sidecars of each id, or Absent
          orig,     \* originals on disk: "none", "fresh" or "old"
          dirs,     \* which of ephemeral/<session> and persistent/<session> exist
          turn,     \* turns: idle, with their own upload, or running
          leader,   \* some live process holds the lock of the sweep
          sweep,    \* the sweep: its phase and the paths it found expired
          removed   \* history: places whose file a user has removed

vars == <<memory, conv, meta, orig, dirs, turn, leader, sweep, removed>>
disk == <<meta, orig, dirs>>
agent == <<memory, conv>>

Absent == [tree |-> None]
NoTurn == [state |-> "idle"]
Ref == [id : Ids, tree : Trees, place : Places]
NoSweep == [phase |-> "idle", ids |-> {}, places |-> {}]

TypeOK ==
  /\ memory \in BOOLEAN /\ conv \in BOOLEAN
  /\ meta \in [Ids -> Meta \union {Absent}]
  /\ orig \in [Places -> {None, "fresh", "old"}]
  /\ dirs \subseteq Trees
  /\ turn \in [Turns -> {NoTurn}
                 \union [state : {"uploaded", "running", "synced"}, refs : SUBSET Ref]]
  /\ leader \in BOOLEAN
  /\ sweep \in [phase : {"idle"} \union Trees, ids : SUBSET Ids, places : SUBSET Places]
  /\ sweep # NoSweep => leader
  /\ removed \subseteq Places

Init ==
  /\ memory \in BOOLEAN /\ conv \in BOOLEAN
  /\ meta = [i \in Ids |-> Absent]
  /\ orig = [p \in Places |-> None]
  /\ dirs = {}
  /\ turn = [t \in Turns |-> NoTurn]
  /\ leader = FALSE
  /\ sweep = NoSweep
  /\ removed = {}

OnDisk(i) == meta[i] # Absent

(* Ids are random; one that is nowhere any more may stand for the next one.  *)
Unused == {i \in Ids : /\ ~OnDisk(i) /\ i \notin sweep.ids
                       /\ \A t \in Turns : turn[t] # NoTurn => \A r \in turn[t].refs : r.id # i}
Fresh(i) == i \in Unused /\ \A j \in Unused : i <= j
Stored(tree) == {i \in Ids : OnDisk(i) /\ meta[i].tree = tree}

-----------------------------------------------------------------------------
(* Storing and listing *)

Strategy(mem) == IF mem /\ conv THEN "persistent" ELSE "ephemeral"

PlaceOf(tree, n) == <<IF tree = "ephemeral" THEN "ephemeral" ELSE "conversations", n>>

(* The original first, then the sidecars; an error in between is logged and  *)
(* the caller gets the reference all the same.                               *)
Save(i, tree, n) ==
  LET p == PlaceOf(tree, n) IN
  /\ orig' = [orig EXCEPT ![p] = "fresh"]
  /\ dirs' = dirs \union {tree}
  /\ removed' = removed \ {p}
  /\ \/ meta' = [meta EXCEPT ![i] = [tree |-> tree, place |-> p, old |-> FALSE]]
     \/ meta' = meta

(* The directory under persistent hides the one under ephemeral.             *)
Listed == Stored(IF "persistent" \in dirs THEN "persistent" ELSE "ephemeral")

(* POST files.  The marketplace's upload does not pass has_memory.           *)
Upload ==
  /\ \E i \in Ids, n \in Names, mem \in {memory, FALSE} : Fresh(i) /\ Save(i, Strategy(mem), n)
  /\ UNCHANGED <<agent, turn, leader, sweep>>

-----------------------------------------------------------------------------
(* Turns *)

(* resolve_chat_files: the files sent with the message are stored first.     *)
TurnUpload ==
  \E t \in Turns :
    /\ turn[t] = NoTurn
    /\ \/ \E i \in Ids, n \in Names :
            LET tree == Strategy(memory) IN
            /\ Fresh(i)
            /\ Save(i, tree, n)
            /\ turn' = [turn EXCEPT ![t] = [state |-> "uploaded",
                          refs |-> {[id |-> i, tree |-> tree, place |-> PlaceOf(tree, n)]}]]
       \/ /\ turn' = [turn EXCEPT ![t] = [state |-> "uploaded", refs |-> {}]]
          /\ UNCHANGED <<disk, removed>>
    /\ UNCHANGED <<agent, leader, sweep>>

RefTo(i) == [id |-> i, tree |-> meta[i].tree, place |-> meta[i].place]

(* Without a conversation and with memory a turn works in the conversation   *)
(* it creates, which is another session.                                     *)
HasWorkspace == conv \/ ~memory

(* Then the files listed are added, all of them or those the request names,  *)
(* and the workspace is laid out: under conversations/<id>, and without a    *)
(* conversation under persistent/<session>.                                  *)
TurnBegin ==
  \E t \in Turns :
    /\ turn[t].state = "uploaded"
    /\ \E asked \in SUBSET Listed :
         turn' = [turn EXCEPT ![t] = [state |-> IF orig[OutputPlace] = None THEN "running" ELSE "synced",
                                      refs |-> @.refs \union {RefTo(i) : i \in asked}]]
    /\ dirs' = IF ~conv /\ ~memory THEN dirs \union {"persistent"} ELSE dirs
    /\ UNCHANGED <<agent, meta, orig, leader, sweep, removed>>

(* The agent writes its output file, again where it was there before.        *)
AgentWrites ==
  /\ HasWorkspace
  /\ \E t \in Turns : turn[t].state \in {"running", "synced"}
  /\ orig' = [orig EXCEPT ![OutputPlace] = "fresh"]
  /\ removed' = removed \ {OutputPlace}
  /\ UNCHANGED <<agent, meta, dirs, turn, leader, sweep>>

(* sync_output_files: an output file that was not there when the turn began  *)
(* is registered, whoever wrote it.                                          *)
TurnSync ==
  \E t \in Turns, i \in Ids :
    /\ turn[t].state = "running" /\ HasWorkspace
    /\ orig[OutputPlace] # None
    /\ Fresh(i)
    /\ meta' = [meta EXCEPT ![i] = [tree |-> "persistent", place |-> OutputPlace, old |-> FALSE]]
    /\ dirs' = dirs \union {"persistent"}
    /\ turn' = [turn EXCEPT ![t] = [state |-> "synced", refs |-> @.refs]]
    /\ UNCHANGED <<agent, orig, leader, sweep, removed>>

(* What the end of a turn removes of its files.                              *)
Cleaned(refs) == {r \in refs : r.tree = "ephemeral"}

Under_Conversations(tree, p) == p[1] = tree \/ (tree = "persistent" /\ p[1] # "ephemeral")

(* The originals under a tree: the workspace of a session without a          *)
(* conversation is under persistent, conversations/ is under neither.        *)
Under(tree, p) == p[1] = tree \/ (tree = "persistent" /\ p[1] = "output" /\ ~conv)

EmptyDir(tree, m, o) ==
  /\ \A i \in Ids : m[i] = Absent \/ m[i].tree # tree
  /\ \A p \in Places : Under(tree, p) => o[p] = None

(* cleanup_ephemeral_refs in the finally of the request or of the stream,    *)
(* after the answer or an error.                                             *)
TurnEnd ==
  \E t \in Turns :
    /\ turn[t].state \in {"running", "synced"}
    /\ LET gone == Cleaned(turn[t].refs) IN
       /\ meta' = [i \in Ids |-> IF \E r \in gone : r.id = i THEN Absent ELSE meta[i]]
       /\ orig' = [p \in Places |-> IF \E r \in gone : r.place = p THEN None ELSE orig[p]]
       /\ dirs' = IF gone # {} /\ EmptyDir("ephemeral", meta', orig') THEN dirs \ {"ephemeral"} ELSE dirs
    /\ turn' = [turn EXCEPT ![t] = NoTurn]
    /\ UNCHANGED <<agent, leader, sweep, removed>>

(* Its process dies, an error comes before the finally clause knows the      *)
(* references, or the client of a stream has gone before it starts.          *)
TurnDropped ==
  \E t \in Turns :
    /\ turn[t] # NoTurn
    /\ turn' = [turn EXCEPT ![t] = NoTurn]
    /\ UNCHANGED <<agent, disk, leader, sweep, removed>>

-----------------------------------------------------------------------------
(* Removal *)

(* DELETE file looks under persistent only: for a file listed from ephemeral *)
(* it answers that it was removed and removes nothing.                       *)
Remove(S) ==
  LET found == {i \in S : meta[i].tree = "persistent"}
      places == {meta[i].place : i \in found} IN
  /\ found # {}
  /\ meta' = [i \in Ids |-> IF i \in found THEN Absent ELSE meta[i]]
  /\ orig' = [p \in Places |-> IF p \in places THEN None ELSE orig[p]]
  /\ removed' = removed \union places
  /\ UNCHANGED <<agent, dirs, turn, leader, sweep>>

RemoveFile == \E i \in Listed : Remove({i})

(* A reset of the conversation removes every file listed.                    *)
Reset == Remove(Listed)

-----------------------------------------------------------------------------
(* The sweep *)

(* A path passes the age limit of its tree; that of the others matters not.   *)
AgeFile(i) == /\ OnDisk(i) /\ ~meta[i].old
              /\ meta' = [meta EXCEPT ![i].old = TRUE]
              /\ UNCHANGED <<agent, orig, dirs, turn, leader, sweep, removed>>
AgeOriginal == /\ \E p \in Places : /\ orig[p] = "fresh" /\ (\E tree \in Trees : Under(tree, p))
                                     /\ orig' = [orig EXCEPT ![p] = "old"]
               /\ UNCHANGED <<agent, meta, dirs, turn, leader, sweep, removed>>

Expired_Listed(tree) ==
  [phase |-> tree,
   ids |-> {i \in Listed : meta[i].tree = tree /\ meta[i].old},
   places |-> {p \in Places : Under(tree, p) /\ orig[p] = "old"}]

Expired(tree) ==
  [phase |-> tree,
   ids |-> {i \in Ids : OnDisk(i) /\ meta[i].tree = tree /\ meta[i].old},
   places |-> {p \in Places : Under(tree, p) /\ orig[p] = "old"}]

SweepStart == /\ leader /\ sweep = NoSweep
              /\ sweep' = Expired("ephemeral")
              /\ UNCHANGED <<agent, disk, turn, leader, removed>>

(* What was found expired is removed, whatever has become of it, and then    *)
(* empty directories; those of a workspace go one level with each sweep.     *)
SweepRemove ==
  /\ sweep.phase # "idle"
  /\ meta' = [i \in Ids |-> IF i \in sweep.ids THEN Absent ELSE meta[i]]
  /\ orig' = [p \in Places |-> IF p \in sweep.places THEN None ELSE orig[p]]
  /\ \/ dirs' = dirs \ {sweep.phase} /\ EmptyDir(sweep.phase, meta', orig')
     \/ dirs' = dirs /\ ~(sweep.phase = "ephemeral" /\ EmptyDir(sweep.phase, meta', orig'))
  /\ sweep' = IF sweep.phase = "ephemeral" THEN Expired("persistent") ELSE NoSweep
  /\ UNCHANGED <<agent, turn, leader, removed>>

(* A process that starts takes the lock if nobody holds it.  The system      *)
(* releases the lock of one that dies; no live process tries again, so the   *)
(* next leader is one that is started after that.                            *)
Start == ~leader /\ leader' = TRUE /\ UNCHANGED <<agent, disk, turn, sweep, removed>>

Crash_KeepsSweep == leader /\ leader' = FALSE /\ UNCHANGED <<agent, disk, turn, sweep, removed>>

Crash == leader /\ leader' = FALSE /\ sweep' = NoSweep /\ UNCHANGED <<agent, disk, turn, removed>>

Next ==
  \/ Upload \/ TurnUpload \/ TurnBegin \/ AgentWrites \/ TurnSync \/ TurnEnd \/ TurnDropped
  \/ RemoveFile \/ Reset
  \/ (\E i \in Ids : AgeFile(i)) \/ AgeOriginal \/ SweepStart \/ SweepRemove
  \/ Start \/ Crash

Spec == Init /\ [][Next]_vars

(* Time passes, processes are started again, and the loop sweeps every hour; *)
(* a sweep is short, so crashes do not interrupt every one of them.          *)
Fairness == /\ \A i \in Ids : WF_vars(AgeFile(i))
            /\ WF_vars(Start)
            /\ SF_vars(SweepStart) /\ SF_vars(SweepRemove)

FairSpec == Spec /\ Fairness

-----------------------------------------------------------------------------
(* Properties *)

(* The original of a file stored for a conversation disappears only when a   *)
(* user removes a file kept under the same name: neither the end of a turn   *)
(* nor the sweep takes it while the file is listed.                          *)
OriginalGoneByRemoval ==
  \A i \in Ids :
    OnDisk(i) /\ meta[i].tree = "persistent" /\ conv /\ orig[meta[i].place] = None
      => meta[i].place \in removed

(* An upload for one turn leaves the disk, also when its turn crashed, lost  *)
(* sight of it or never came, and when the process that swept has died.      *)
EphemeralReaped ==
  \A i \in Ids : OnDisk(i) /\ meta[i].tree = "ephemeral" ~> ~(OnDisk(i) /\ meta[i].tree = "ephemeral")

=============================================================================
