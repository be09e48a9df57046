----------------------------- MODULE FilesProofs -----------------------------
(***************************************************************************)
(* Typing of Files, and that the original of a conversation's file stays   *)
(* until a user removes it, for any filenames, turns and bound.            *)
(***************************************************************************)
EXTENDS Files, TLAPS

(* A turn under way has references.                                          *)
ATurn == [state : {"uploaded", "running", "synced"}, refs : SUBSET Ref]

LEMMA Under_way ==
  ASSUME TypeOK, NEW t \in Turns, turn[t].state # "idle"
  PROVE  turn[t] \in ATurn
  BY DEF TypeOK, NoTurn, ATurn

LEMMA TypedTurn ==
  ASSUME TypeOK, NEW t \in Turns, NEW r \in ATurn \union {NoTurn}, turn' = [turn EXCEPT ![t] = r]
  PROVE  /\ turn' \in [Turns -> {NoTurn} \union ATurn]
         /\ turn'[t] = r
         /\ \A u \in Turns : u # t => turn'[u] = turn[u]
  BY DEF TypeOK, ATurn

(* Where a strategy stores is a place of originals.                          *)
LEMMA PlaceTyped ==
  ASSUME NEW tree \in Trees, NEW n \in Names
  PROVE  /\ PlaceOf(tree, n) \in Places
         /\ PlaceOf(tree, n)[1] = IF tree = "ephemeral" THEN "ephemeral" ELSE "conversations"
  BY DEF PlaceOf, Places, Trees

LEMMA OutputTyped == OutputPlace \in Places /\ OutputPlace[1] = "output"
  BY DEF OutputPlace, Places

LEMMA MetaTyped ==
  ASSUME TypeOK, NEW i \in Ids, OnDisk(i)
  PROVE  meta[i] \in Meta /\ meta[i].tree \in Trees /\ meta[i].place \in Places
  BY DEF TypeOK, OnDisk, Meta

LEMMA SaveTyped ==
  ASSUME TypeOK, NEW i \in Ids, NEW tree \in Trees, NEW n \in Names, Save(i, tree, n)
  PROVE  /\ meta' \in [Ids -> Meta \union {Absent}]
         /\ orig' \in [Places -> {None, "fresh", "old"}]
         /\ dirs' \subseteq Trees /\ removed' \subseteq Places
<1>1. PICK r : r = [tree |-> tree, place |-> PlaceOf(tree, n), old |-> FALSE]
  OBVIOUS
<1>2. r \in Meta
  BY <1>1, PlaceTyped DEF Meta
<1>3. meta' = [meta EXCEPT ![i] = r] \/ meta' = meta
  BY <1>1 DEF Save
<1> QED
  BY <1>2, <1>3 DEF Save, TypeOK

LEMMA ExpiredTyped ==
  ASSUME NEW tree \in Trees
  PROVE  /\ Expired(tree) \in [phase : {"idle"} \union Trees, ids : SUBSET Ids, places : SUBSET Places]
         /\ Expired(tree).places = {p \in Places : Under(tree, p) /\ orig[p] = "old"}
  BY DEF Expired

LEMMA StrategyTyped == ASSUME NEW m \in BOOLEAN PROVE Strategy(m) \in Trees
  BY DEF Strategy, Trees

LEMMA InitTyped == Init => TypeOK
<1> SUFFICES ASSUME Init PROVE TypeOK
  OBVIOUS
<1>1. NoSweep \in [phase : {"idle"} \union Trees, ids : SUBSET Ids, places : SUBSET Places]
  BY DEF NoSweep
<1> QED
  BY <1>1 DEF Init, TypeOK

(* What the end of a turn leaves is a turn, or none.                         *)
LEMMA TurnUploadTyped ==
  ASSUME TypeOK, NEW t \in Turns, NEW refs \in SUBSET Ref,
         turn' = [turn EXCEPT ![t] = [state |-> "uploaded", refs |-> refs]]
  PROVE  /\ turn' \in [Turns -> {NoTurn} \union ATurn]
         /\ turn'[t].refs = refs
         /\ \A u \in Turns : u # t => turn'[u] = turn[u]
<1>1. PICK r : r = [state |-> "uploaded", refs |-> refs]
  OBVIOUS
<1>2. r \in ATurn /\ r.refs = refs
  BY <1>1 DEF ATurn
<1> QED
  BY <1>1, <1>2, TypedTurn

LEMMA RefTyped ==
  ASSUME TypeOK, NEW i \in Ids, OnDisk(i)
  PROVE  RefTo(i) \in Ref /\ RefTo(i).tree = meta[i].tree /\ RefTo(i).place = meta[i].place
  BY MetaTyped DEF RefTo, Ref

(* A turn begins with files that are listed, and listed files are on disk.   *)
LEMMA BeginTyped ==
  ASSUME TypeOK, NEW t \in Turns, turn[t].state = "uploaded", NEW asked \in SUBSET Listed,
         NEW s \in {"running", "synced"},
         turn' = [turn EXCEPT ![t] = [state |-> s, refs |-> @.refs \union {RefTo(i) : i \in asked}]]
  PROVE  /\ turn' \in [Turns -> {NoTurn} \union ATurn]
         /\ turn'[t].refs = turn[t].refs \union {RefTo(i) : i \in asked}
         /\ \A u \in Turns : u # t => turn'[u] = turn[u]
<1>1. turn[t] \in ATurn
  BY Under_way
<1>2. \A i \in asked : i \in Ids /\ OnDisk(i)
  BY DEF Listed, Stored
<1>3. {RefTo(i) : i \in asked} \subseteq Ref
  BY <1>2, RefTyped
<1>4. PICK r : r = [state |-> s, refs |-> turn[t].refs \union {RefTo(i) : i \in asked}]
  OBVIOUS
<1>5. r \in ATurn /\ r.refs = turn[t].refs \union {RefTo(i) : i \in asked}
  BY <1>1, <1>3, <1>4 DEF ATurn
<1>6. turn' = [turn EXCEPT ![t] = r]
  BY <1>4
<1> QED
  BY <1>5, <1>6, TypedTurn

LEMMA SyncTyped ==
  ASSUME TypeOK, NEW t \in Turns, turn[t].state = "running",
         turn' = [turn EXCEPT ![t] = [state |-> "synced", refs |-> @.refs]]
  PROVE  /\ turn' \in [Turns -> {NoTurn} \union ATurn]
         /\ turn'[t].refs = turn[t].refs
         /\ \A u \in Turns : u # t => turn'[u] = turn[u]
<1>1. turn[t] \in ATurn
  BY Under_way
<1>2. PICK r : r = [state |-> "synced", refs |-> turn[t].refs]
  OBVIOUS
<1>3. r \in ATurn /\ r.refs = turn[t].refs
  BY <1>1, <1>2 DEF ATurn
<1>4. turn' = [turn EXCEPT ![t] = r]
  BY <1>2
<1> QED
  BY <1>3, <1>4, TypedTurn

LEMMA TypeStep == TypeOK /\ [Next]_vars => TypeOK'
<1> SUFFICES ASSUME TypeOK, [Next]_vars PROVE TypeOK'
  OBVIOUS
<1> USE DEF ATurn, agent, disk
<1>1. CASE Upload
  <2>1. PICK i \in Ids, n \in Names, mem \in BOOLEAN : Save(i, Strategy(mem), n)
    BY <1>1 DEF Upload, TypeOK
  <2> QED
    BY <1>1, <2>1, StrategyTyped, SaveTyped DEF Upload, TypeOK
<1>2. CASE TurnUpload
  <2>1. PICK t \in Turns :
          /\ \/ \E i \in Ids, n \in Names :
                  LET tree == Strategy(memory) IN
                  /\ Save(i, tree, n)
                  /\ turn' = [turn EXCEPT ![t] = [state |-> "uploaded",
                                refs |-> {[id |-> i, tree |-> tree, place |-> PlaceOf(tree, n)]}]]
             \/ /\ turn' = [turn EXCEPT ![t] = [state |-> "uploaded", refs |-> {}]]
                /\ UNCHANGED <<disk, removed>>
          /\ UNCHANGED <<agent, leader, sweep>>
    BY <1>2 DEF TurnUpload
  <2>2. ASSUME NEW i \in Ids, NEW n \in Names, Save(i, Strategy(memory), n),
               turn' = [turn EXCEPT ![t] = [state |-> "uploaded",
                 refs |-> {[id |-> i, tree |-> Strategy(memory), place |-> PlaceOf(Strategy(memory), n)]}]]
        PROVE  TypeOK'
    <3>1. PICK tree \in Trees : tree = Strategy(memory)
      BY StrategyTyped DEF TypeOK
    <3>2. PICK refs : refs = {[id |-> i, tree |-> tree, place |-> PlaceOf(tree, n)]}
      OBVIOUS
    <3>3. refs \in SUBSET Ref
      BY <3>1, <3>2, PlaceTyped DEF Ref
    <3>4. turn' = [turn EXCEPT ![t] = [state |-> "uploaded", refs |-> refs]] /\ Save(i, tree, n)
      BY <2>2, <3>1, <3>2
    <3>5. turn' \in [Turns -> {NoTurn} \union ATurn]
      BY <3>3, <3>4, TurnUploadTyped
    <3> QED
      BY <2>1, <3>1, <3>4, <3>5, SaveTyped DEF TypeOK
  <2>3. ASSUME turn' = [turn EXCEPT ![t] = [state |-> "uploaded", refs |-> {}]], UNCHANGED <<disk, removed>>
        PROVE  TypeOK'
    BY <2>1, <2>3, TurnUploadTyped DEF TypeOK
  <2> QED
    BY <2>1, <2>2, <2>3
<1>3. CASE TurnBegin
  <2>1. PICK t \in Turns, asked \in SUBSET Listed, s \in {"running", "synced"} :
          /\ turn[t].state = "uploaded"
          /\ turn' = [turn EXCEPT ![t] = [state |-> s, refs |-> @.refs \union {RefTo(i) : i \in asked}]]
    BY <1>3 DEF TurnBegin
  <2>2. turn' \in [Turns -> {NoTurn} \union ATurn]
    BY <2>1, BeginTyped
  <2>3. dirs' \subseteq Trees
    BY <1>3 DEF TurnBegin, TypeOK, Trees
  <2> QED
    BY <1>3, <2>2, <2>3 DEF TurnBegin, TypeOK
<1>4. CASE AgentWrites
  BY <1>4, OutputTyped DEF AgentWrites, TypeOK
<1>5. CASE TurnSync
  <2>1. PICK t \in Turns, i \in Ids :
          /\ turn[t].state = "running"
          /\ meta' = [meta EXCEPT ![i] = [tree |-> "persistent", place |-> OutputPlace, old |-> FALSE]]
          /\ turn' = [turn EXCEPT ![t] = [state |-> "synced", refs |-> @.refs]]
          /\ dirs' = dirs \union {"persistent"}
          /\ UNCHANGED <<agent, orig, leader, sweep, removed>>
    BY <1>5 DEF TurnSync
  <2>2. [tree |-> "persistent", place |-> OutputPlace, old |-> FALSE] \in Meta
    BY OutputTyped DEF Meta, Trees
  <2>3. turn' \in [Turns -> {NoTurn} \union ATurn]
    BY <2>1, SyncTyped
  <2>4. meta' \in [Ids -> Meta \union {Absent}]
    <3>1. PICK r \in Meta : r = [tree |-> "persistent", place |-> OutputPlace, old |-> FALSE]
      BY <2>2
    <3> QED
      BY <2>1, <3>1 DEF TypeOK
  <2> QED
    BY <2>1, <2>3, <2>4 DEF TypeOK, Trees
<1>6. CASE TurnEnd
  <2>1. turn' \in [Turns -> {NoTurn} \union ATurn]
    BY <1>6, TypedTurn DEF TurnEnd
  <2>2. meta' \in [Ids -> Meta \union {Absent}] /\ orig' \in [Places -> {None, "fresh", "old"}]
        /\ dirs' \subseteq Trees
    BY <1>6 DEF TurnEnd, TypeOK
  <2> QED
    BY <1>6, <2>1, <2>2 DEF TurnEnd, TypeOK
<1>7. CASE TurnDropped
  BY <1>7, TypedTurn DEF TurnDropped, TypeOK
<1>8. ASSUME NEW S \in SUBSET Listed, Remove(S) PROVE TypeOK'
  <2>1. \A i \in S : i \in Ids /\ OnDisk(i)
    BY DEF Listed, Stored
  <2>2. removed' \subseteq Places
    BY <1>8, <2>1, MetaTyped DEF Remove, TypeOK
  <2>3. meta' \in [Ids -> Meta \union {Absent}] /\ orig' \in [Places -> {None, "fresh", "old"}]
    BY <1>8 DEF Remove, TypeOK
  <2> QED
    BY <1>8, <2>2, <2>3 DEF Remove, TypeOK
<1>9. ASSUME NEW i \in Ids, AgeFile(i) PROVE TypeOK'
  <2>1. PICK r \in Meta : r = [meta[i] EXCEPT !.old = TRUE]
    BY <1>9, MetaTyped DEF AgeFile, Meta
  <2>2. meta' = [meta EXCEPT ![i] = r]
    BY <1>9, <2>1 DEF AgeFile
  <2> QED
    BY <1>9, <2>2 DEF AgeFile, TypeOK
<1>10. CASE AgeOriginal
  BY <1>10 DEF AgeOriginal, TypeOK
<1>11. CASE SweepStart
  BY <1>11, ExpiredTyped DEF SweepStart, TypeOK, Trees
<1>12. CASE SweepRemove
  <2>1. leader /\ NoSweep \in [phase : {"idle"} \union Trees, ids : SUBSET Ids, places : SUBSET Places]
    BY <1>12 DEF SweepRemove, TypeOK, NoSweep
  <2>2. sweep' \in [phase : {"idle"} \union Trees, ids : SUBSET Ids, places : SUBSET Places]
    <3>1. Expired("persistent")' \in [phase : {"idle"} \union Trees, ids : SUBSET Ids, places : SUBSET Places]
      BY DEF Expired, Trees
    <3> QED
      BY <1>12, <2>1, <3>1, ExpiredTyped DEF SweepRemove, Trees
  <2>3. meta' \in [Ids -> Meta \union {Absent}] /\ orig' \in [Places -> {None, "fresh", "old"}]
        /\ dirs' \subseteq Trees
    BY <1>12 DEF SweepRemove, TypeOK
  <2> QED
    BY <1>12, <2>1, <2>2, <2>3 DEF SweepRemove, TypeOK
<1>13. CASE Start \/ Crash
  <2>1. NoSweep \in [phase : {"idle"} \union Trees, ids : SUBSET Ids, places : SUBSET Places]
    BY DEF NoSweep
  <2> QED
    BY <1>13, <2>1 DEF Start, Crash, TypeOK
<1>14. CASE UNCHANGED vars
  BY <1>14 DEF vars, TypeOK
<1>15. CASE RemoveFile \/ Reset
  BY <1>8, <1>15 DEF RemoveFile, Reset
<1> QED
  BY <1>1, <1>2, <1>3, <1>4, <1>5, <1>6, <1>7, <1>9, <1>10, <1>11, <1>12, <1>13, <1>14, <1>15 DEF Next

(* Every reachable state is well typed; only a live leader sweeps (TypeOK).  *)
THEOREM FilesTyped == Spec => []TypeOK
  BY InitTyped, TypeStep, PTL DEF Spec

-----------------------------------------------------------------------------
(* Originals *)

(* A tree and a place that belong together.                                  *)
Fits(tree, p) == p[1] = "ephemeral" <=> tree = "ephemeral"

(* What has been stored is found where its tree is, by the files, the turns  *)
(* and the sweep; those of a conversation are out of the sweep's reach.      *)
MetaFits == \A i \in Ids : OnDisk(i) => Fits(meta[i].tree, meta[i].place)
RefsFit == \A t \in Turns : turn[t].state # "idle" => \A r \in turn[t].refs : Fits(r.tree, r.place)
SweepFits == conv => \A p \in sweep.places : p[1] = "ephemeral"

OriginalInv == MetaFits /\ RefsFit /\ SweepFits /\ OriginalGoneByRemoval

LEMMA OriginalInit == Init => OriginalInv
<1> SUFFICES ASSUME Init PROVE OriginalInv
  OBVIOUS
<1>1. \A i \in Ids : ~OnDisk(i)
  BY DEF Init, OnDisk
<1>2. \A t \in Turns : turn[t].state = "idle"
  BY DEF Init, NoTurn
<1>3. sweep.places = {}
  BY DEF Init, NoSweep
<1> QED
  BY <1>1, <1>2, <1>3 DEF OriginalInv, MetaFits, RefsFit, SweepFits, OriginalGoneByRemoval

(* Storing a file: its original is there.                                    *)
LEMMA SaveKeeps ==
  ASSUME TypeOK, MetaFits, OriginalGoneByRemoval, NEW i \in Ids, NEW tree \in Trees, NEW n \in Names,
         Save(i, tree, n), conv' = conv
  PROVE  MetaFits' /\ OriginalGoneByRemoval'
<1>1. PICK p \in Places : p = PlaceOf(tree, n) /\ Fits(tree, p)
  BY PlaceTyped DEF Fits
<1>0. PICK r : r = [tree |-> tree, place |-> p, old |-> FALSE]
  OBVIOUS
<1>2. r.tree = tree /\ r.place = p
  BY <1>0
<1>3. /\ meta' = [meta EXCEPT ![i] = r] \/ meta' = meta
      /\ orig' = [orig EXCEPT ![p] = "fresh"] /\ removed' = removed \ {p}
  BY <1>0, <1>1 DEF Save
<1>4. \A j \in Ids : OnDisk(j)' => meta'[j] = r \/ (OnDisk(j) /\ meta'[j] = meta[j])
  BY <1>3 DEF TypeOK, OnDisk
<1>5. MetaFits'
  BY <1>1, <1>2, <1>4 DEF MetaFits
<1>6. \A q \in Places : orig'[q] = None => q # p /\ orig[q] = None
  BY <1>3 DEF TypeOK, None
<1>7. ASSUME NEW j \in Ids, OnDisk(j)', meta'[j].tree = "persistent", conv', orig'[meta'[j].place] = None
      PROVE  meta'[j].place \in removed'
  <2>1. OnDisk(j) /\ meta'[j] = meta[j]
    BY <1>1, <1>2, <1>4, <1>6, <1>7
  <2>2. meta[j].place \in Places
    BY <2>1, MetaTyped
  <2> QED
    BY <1>3, <1>6, <1>7, <2>1, <2>2 DEF OriginalGoneByRemoval
<1> QED
  BY <1>5, <1>7 DEF OriginalGoneByRemoval

(* A step that takes sidecars away and no original of a conversation's.      *)
LEMMA LessKeeps ==
  ASSUME TypeOK, MetaFits, OriginalGoneByRemoval, conv' = conv,
         \A i \in Ids : OnDisk(i)' => OnDisk(i) /\ meta'[i].tree = meta[i].tree /\ meta'[i].place = meta[i].place,
         \A p \in Places : conv /\ p[1] # "ephemeral" /\ orig'[p] = None => orig[p] = None \/ p \in removed',
         removed \subseteq removed'
  PROVE  MetaFits' /\ OriginalGoneByRemoval'
<1>1. MetaFits'
  BY DEF MetaFits
<1>2. ASSUME NEW i \in Ids, OnDisk(i)', meta'[i].tree = "persistent", conv', orig'[meta'[i].place] = None
      PROVE  meta'[i].place \in removed'
  <2>1. OnDisk(i) /\ meta[i].tree = "persistent" /\ meta[i].place = meta'[i].place
    BY <1>2
  <2>2. meta[i].place \in Places /\ meta[i].place[1] # "ephemeral"
    BY <2>1, MetaTyped DEF MetaFits, Fits
  <2> QED
    BY <1>2, <2>1, <2>2 DEF OriginalGoneByRemoval
<1> QED
  BY <1>1, <1>2 DEF OriginalGoneByRemoval

(* A step that changes nothing on the disk.                                  *)
LEMMA SameDisk ==
  ASSUME TypeOK, MetaFits, OriginalGoneByRemoval, UNCHANGED <<meta, orig, removed, conv>>
  PROVE  MetaFits' /\ OriginalGoneByRemoval'
  BY DEF MetaFits, OriginalGoneByRemoval, OnDisk

LEMMA PlaceKinds == \A p \in Places : p[1] \in {"ephemeral", "conversations", "output"}
  BY DEF Places

LEMMA ExpiredFits ==
  ASSUME NEW tree \in Trees
  PROVE  conv => \A p \in Expired(tree).places : p[1] = "ephemeral"
  BY ExpiredTyped, PlaceKinds DEF Under, Trees

LEMMA OriginalStep == TypeOK /\ OriginalInv /\ [Next]_vars => OriginalInv'
<1> SUFFICES ASSUME TypeOK, MetaFits, RefsFit, SweepFits, OriginalGoneByRemoval, [Next]_vars
             PROVE  OriginalInv'
  BY DEF OriginalInv
<1> USE DEF OriginalInv, agent, disk
<1>a. turn' = turn => RefsFit'
  BY DEF RefsFit
<1>b. sweep' = sweep /\ conv' = conv => SweepFits'
  BY DEF SweepFits
<1>c. ASSUME NEW t \in Turns, turn' = [turn EXCEPT ![t] = NoTurn] PROVE RefsFit'
  BY <1>c, TypedTurn DEF RefsFit, NoTurn
<1>1. CASE Upload
  <2>1. PICK i \in Ids, n \in Names, mem \in BOOLEAN : Save(i, Strategy(mem), n)
    BY <1>1 DEF Upload, TypeOK
  <2> QED
    BY <1>1, <2>1, <1>a, <1>b, StrategyTyped, SaveKeeps DEF Upload
<1>2. CASE TurnUpload
  <2>1. PICK t \in Turns :
          /\ \/ \E i \in Ids, n \in Names :
                  LET tree == Strategy(memory) IN
                  /\ Save(i, tree, n)
                  /\ turn' = [turn EXCEPT ![t] = [state |-> "uploaded",
                                refs |-> {[id |-> i, tree |-> tree, place |-> PlaceOf(tree, n)]}]]
             \/ /\ turn' = [turn EXCEPT ![t] = [state |-> "uploaded", refs |-> {}]]
                /\ UNCHANGED <<disk, removed>>
          /\ UNCHANGED <<agent, leader, sweep>>
    BY <1>2 DEF TurnUpload
  <2>2. ASSUME NEW i \in Ids, NEW n \in Names, Save(i, Strategy(memory), n),
               turn' = [turn EXCEPT ![t] = [state |-> "uploaded",
                 refs |-> {[id |-> i, tree |-> Strategy(memory), place |-> PlaceOf(Strategy(memory), n)]}]]
        PROVE  OriginalInv'
    <3>1. PICK tree \in Trees : tree = Strategy(memory)
      BY StrategyTyped DEF TypeOK
    <3>2. PICK p \in Places : p = PlaceOf(tree, n) /\ Fits(tree, p)
      BY PlaceTyped DEF Fits
    <3>a. PICK r : r = [id |-> i, tree |-> tree, place |-> p]
      OBVIOUS
    <3>3. {r} \in SUBSET Ref /\ Fits(r.tree, r.place)
      BY <3>2, <3>a DEF Ref
    <3>4. turn' = [turn EXCEPT ![t] = [state |-> "uploaded", refs |-> {r}]] /\ Save(i, tree, n)
      BY <2>2, <3>1, <3>2, <3>a
    <3>5. turn'[t].refs = {r} /\ \A u \in Turns : u # t => turn'[u] = turn[u]
      BY <3>3, <3>4, TurnUploadTyped
    <3>6. RefsFit'
      BY <3>3, <3>5 DEF RefsFit
    <3> QED
      BY <2>1, <3>4, <3>6, <1>b, SaveKeeps
  <2>3. ASSUME turn' = [turn EXCEPT ![t] = [state |-> "uploaded", refs |-> {}]], UNCHANGED <<disk, removed>>
        PROVE  OriginalInv'
    <3>0. PICK refs \in SUBSET Ref : refs = {}
      OBVIOUS
    <3>1. turn'[t].refs = {} /\ \A u \in Turns : u # t => turn'[u] = turn[u]
      BY <2>3, <3>0, TurnUploadTyped
    <3>2. RefsFit'
      BY <3>1 DEF RefsFit
    <3> QED
      BY <2>1, <2>3, <3>2, <1>b, SameDisk
  <2> QED
    BY <2>1, <2>2, <2>3
<1>3. CASE TurnBegin
  <2>1. PICK t \in Turns, asked \in SUBSET Listed, s \in {"running", "synced"} :
          /\ turn[t].state = "uploaded"
          /\ turn' = [turn EXCEPT ![t] = [state |-> s, refs |-> @.refs \union {RefTo(i) : i \in asked}]]
    BY <1>3 DEF TurnBegin
  <2>2. /\ turn'[t].refs = turn[t].refs \union {RefTo(i) : i \in asked}
        /\ \A u \in Turns : u # t => turn'[u] = turn[u]
    BY <2>1, BeginTyped
  <2>3. \A i \in asked : Fits(RefTo(i).tree, RefTo(i).place)
    BY RefTyped DEF Listed, Stored, MetaFits
  <2>4. RefsFit'
    BY <2>1, <2>2, <2>3 DEF RefsFit
  <2> QED
    BY <1>3, <2>4, <1>b, SameDisk DEF TurnBegin
<1>4. CASE AgentWrites
  <2>1. \A q \in Places : orig'[q] = None => q # OutputPlace /\ orig[q] = None
    BY <1>4, OutputTyped DEF AgentWrites, TypeOK, None
  <2>2. OriginalGoneByRemoval'
    BY <1>4, <2>1, MetaTyped DEF AgentWrites, OriginalGoneByRemoval, OnDisk
  <2>3. MetaFits'
    BY <1>4 DEF AgentWrites, MetaFits, OnDisk
  <2> QED
    BY <1>4, <2>2, <2>3, <1>a, <1>b DEF AgentWrites
<1>5. CASE TurnSync
  <2>1. PICK t \in Turns, i \in Ids :
          /\ turn[t].state = "running" /\ orig[OutputPlace] # None
          /\ meta' = [meta EXCEPT ![i] = [tree |-> "persistent", place |-> OutputPlace, old |-> FALSE]]
          /\ turn' = [turn EXCEPT ![t] = [state |-> "synced", refs |-> @.refs]]
          /\ UNCHANGED <<agent, orig, leader, sweep, removed>>
    BY <1>5 DEF TurnSync
  <2>2. PICK r : r = [tree |-> "persistent", place |-> OutputPlace, old |-> FALSE]
    OBVIOUS
  <2>3. r.tree = "persistent" /\ r.place = OutputPlace /\ Fits(r.tree, r.place)
    BY <2>2, OutputTyped DEF Fits
  <2>4. \A j \in Ids : OnDisk(j)' => meta'[j] = r \/ (OnDisk(j) /\ meta'[j] = meta[j])
    BY <2>1, <2>2 DEF TypeOK, OnDisk
  <2>5. MetaFits' /\ OriginalGoneByRemoval'
    BY <2>1, <2>3, <2>4 DEF MetaFits, OriginalGoneByRemoval
  <2>6. RefsFit'
    BY <2>1, SyncTyped DEF RefsFit
  <2> QED
    BY <2>1, <2>5, <2>6, <1>b
<1>6. CASE TurnEnd
  <2>1. PICK t \in Turns :
          /\ turn[t].state # "idle"
          /\ meta' = [i \in Ids |-> IF \E r \in Cleaned(turn[t].refs) : r.id = i THEN Absent ELSE meta[i]]
          /\ orig' = [p \in Places |-> IF \E r \in Cleaned(turn[t].refs) : r.place = p THEN None ELSE orig[p]]
          /\ turn' = [turn EXCEPT ![t] = NoTurn]
          /\ UNCHANGED <<agent, leader, sweep, removed>>
    BY <1>6 DEF TurnEnd
  <2>2. \A r \in Cleaned(turn[t].refs) : r.place[1] = "ephemeral"
    BY <2>1 DEF Cleaned, RefsFit, Fits
  <2>3. \A i \in Ids : OnDisk(i)' => OnDisk(i) /\ meta'[i] = meta[i]
    BY <2>1 DEF OnDisk
  <2>4. \A p \in Places : p[1] # "ephemeral" => orig'[p] = orig[p]
    BY <2>1, <2>2
  <2> QED
    BY <2>1, <2>3, <2>4, <1>b, <1>c, LessKeeps
<1>7. CASE TurnDropped
  BY <1>7, <1>b, <1>c, SameDisk DEF TurnDropped
<1>8. ASSUME NEW S \in SUBSET Listed, Remove(S) PROVE OriginalInv'
  <2> DEFINE places == {meta[i].place : i \in {j \in S : meta[j].tree = "persistent"}}
  <2>1. \A i \in Ids : OnDisk(i)' => OnDisk(i) /\ meta'[i] = meta[i]
    BY <1>8 DEF Remove, OnDisk
  <2>2. /\ orig' = [p \in Places |-> IF p \in places THEN None ELSE orig[p]]
        /\ removed' = removed \union places
    BY <1>8 DEF Remove
  <2>3. MetaFits' /\ OriginalGoneByRemoval'
    BY <1>8, <2>1, <2>2, LessKeeps DEF Remove
  <2> QED
    BY <1>8, <2>3, <1>a, <1>b DEF Remove
<1>9. ASSUME NEW i \in Ids, AgeFile(i) PROVE OriginalInv'
  <2>0. OnDisk(i) /\ meta[i] \in Meta
    BY <1>9, MetaTyped DEF AgeFile
  <2>1. PICK r : r = [meta[i] EXCEPT !.old = TRUE]
    OBVIOUS
  <2>2. meta' = [meta EXCEPT ![i] = r] /\ r.tree = meta[i].tree /\ r.place = meta[i].place
    BY <1>9, <2>0, <2>1 DEF AgeFile, Meta
  <2>3. \A j \in Ids : OnDisk(j)' => OnDisk(j) /\ meta'[j].tree = meta[j].tree /\ meta'[j].place = meta[j].place
    BY <2>0, <2>2 DEF OnDisk, TypeOK
  <2> QED
    BY <1>9, <2>3, <1>a, <1>b, LessKeeps DEF AgeFile
<1>10. CASE AgeOriginal
  <2>1. \A p \in Places : orig'[p] = None => orig[p] = None
    BY <1>10 DEF AgeOriginal, TypeOK, None
  <2>2. \A i \in Ids : OnDisk(i)' => OnDisk(i) /\ meta'[i] = meta[i]
    BY <1>10 DEF AgeOriginal, OnDisk
  <2> QED
    BY <1>10, <2>1, <2>2, <1>a, <1>b, LessKeeps DEF AgeOriginal
<1>11. CASE SweepStart
  <2>1. SweepFits'
    BY <1>11, ExpiredFits DEF SweepStart, SweepFits, Trees
  <2> QED
    BY <1>11, <2>1, <1>a, SameDisk DEF SweepStart
<1>12. CASE SweepRemove
  <2>1. \A i \in Ids : OnDisk(i)' => OnDisk(i) /\ meta'[i] = meta[i]
    BY <1>12 DEF SweepRemove, OnDisk
  <2>2. \A p \in Places : conv /\ p[1] # "ephemeral" => orig'[p] = orig[p]
    BY <1>12 DEF SweepRemove, SweepFits
  <2>3. SweepFits'
    <3>2. NoSweep.places = {}
      BY DEF NoSweep
    <3>3. CASE sweep.phase # "ephemeral"
      BY <1>12, <3>2, <3>3 DEF SweepRemove, SweepFits
    <3>4. CASE sweep.phase = "ephemeral"
      BY <1>12, <3>4, ExpiredFits DEF SweepRemove, SweepFits, Trees
    <3> QED
      BY <3>3, <3>4
  <2> QED
    BY <1>12, <2>1, <2>2, <2>3, <1>a, LessKeeps DEF SweepRemove
<1>13. CASE Start
  BY <1>13, <1>a, <1>b, SameDisk DEF Start
<1>14. CASE Crash
  <2>1. SweepFits'
    BY <1>14 DEF Crash, SweepFits, NoSweep
  <2> QED
    BY <1>14, <2>1, <1>a, SameDisk DEF Crash
<1>15. CASE UNCHANGED vars
  BY <1>15, <1>a, <1>b, SameDisk DEF vars
<1>16. CASE RemoveFile \/ Reset
  BY <1>8, <1>16 DEF RemoveFile, Reset
<1> QED
  BY <1>1, <1>2, <1>3, <1>4, <1>5, <1>6, <1>7, <1>9, <1>10, <1>11, <1>12, <1>13, <1>14,
     <1>15, <1>16 DEF Next

(* Neither the end of a turn nor the sweep takes the original of a file that *)
(* is stored for a conversation (OriginalGoneByRemoval), for any number of   *)
(* overlapping turns.                                                        *)
THEOREM OriginalsStay == Spec => []OriginalGoneByRemoval
<1>1. TypeOK /\ OriginalInv /\ [Next]_vars => (TypeOK /\ OriginalInv)'
  BY TypeStep, OriginalStep
<1>2. OriginalInv => OriginalGoneByRemoval
  BY DEF OriginalInv
<1> QED
  BY <1>1, <1>2, InitTyped, OriginalInit, PTL DEF Spec
=============================================================================
