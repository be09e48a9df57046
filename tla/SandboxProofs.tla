---------------------------- MODULE SandboxProofs ----------------------------
(***************************************************************************)
(* Typing of SandboxSessions, the owners of reservations, and, when the    *)
(* calls have different keys, the cap and the safety of leased sandboxes,  *)
(* for any processes, calls, keys, sandboxes and faults.                   *)
(***************************************************************************)
EXTENDS SandboxSessions, FiniteSetTheorems, TLAPS

-----------------------------------------------------------------------------
(* Typing *)

Uses == 0 .. Cardinality(Calls)
EntryType == [box : BoxOrNone, uses : Uses, idle : BOOLEAN]
RowType == [box : BoxOrNone, idle : BOOLEAN, leased : BOOLEAN]

(* A call that has counted itself in and has not yet counted itself out, or  *)
(* is about to drop the entry.                                               *)
Using(c) ==
  \/ pc[c] \in {"touch", "drop"}
  \/ pc[c] \in {"run", "end", "fail"} /\ leased[c]
UsersOf(p, k) == {c \in Calls : Home[c] = p /\ KeyOf[c] = k /\ Using(c)}

(* The uses of an entry are those of calls that will count themselves out.   *)
UsesCounted ==
  \A p \in Procs, k \in Keys :
    /\ entry[p][k].uses <= Cardinality(UsersOf(p, k))
    /\ entry[p][k].box = NoBox => entry[p][k].uses = 0

LEMMA UserSets ==
  ASSUME NEW S, S \subseteq Calls
  PROVE  /\ IsFiniteSet(S) /\ Cardinality(S) \in Nat /\ Cardinality(Calls) \in Nat
         /\ Cardinality(S) <= Cardinality(Calls)
         /\ \A R \in SUBSET S : Cardinality(R) \in Nat /\ Cardinality(R) <= Cardinality(S)
         /\ \A c \in S : Cardinality(S \ {c}) = Cardinality(S) - 1
         /\ \A c \in Calls \ S : Cardinality(S \union {c}) = Cardinality(S) + 1
<1>1. IsFiniteSet(S)
  BY CallsFinite, FS_Subset
<1>2. \A R \in SUBSET S : IsFiniteSet(R) /\ Cardinality(R) <= Cardinality(S)
  BY <1>1, FS_Subset
<1>3. Cardinality(S) <= Cardinality(Calls)
  BY CallsFinite, FS_Subset
<1> QED
  BY <1>1, <1>2, <1>3, CallsFinite, FS_CardinalityType, FS_RemoveElement, FS_AddElement

(* An entry whose uses are none, or those of before and as many users.       *)
LEMMA UsesKept ==
  ASSUME UsesCounted, entry \in [Procs -> [Keys -> EntryType]],
         \A p \in Procs, k \in Keys :
           \/ entry'[p][k].uses = 0
           \/ /\ entry'[p][k].uses = entry[p][k].uses /\ entry'[p][k].box = entry[p][k].box
              /\ UsersOf(p, k) \subseteq UsersOf(p, k)'
  PROVE  UsesCounted'
<1> SUFFICES ASSUME NEW p \in Procs, NEW k \in Keys
             PROVE  /\ entry'[p][k].uses <= Cardinality(UsersOf(p, k)')
                    /\ entry'[p][k].box = NoBox => entry'[p][k].uses = 0
  BY DEF UsesCounted
<1>0. entry[p][k].uses \in Nat
  <2>1. entry[p][k] \in EntryType
    OBVIOUS
  <2>2. Cardinality(Calls) \in Nat
    BY UserSets
  <2> QED
    BY <2>1, <2>2 DEF EntryType, Uses
<1>1. UsersOf(p, k) \subseteq Calls /\ UsersOf(p, k)' \subseteq Calls
  BY DEF UsersOf
<1>2. Cardinality(UsersOf(p, k)') \in Nat /\ Cardinality(UsersOf(p, k)) \in Nat
  BY <1>1, UserSets
<1>3. CASE entry'[p][k].uses = 0
  BY <1>2, <1>3
<1>4. CASE /\ entry'[p][k].uses = entry[p][k].uses /\ entry'[p][k].box = entry[p][k].box
           /\ UsersOf(p, k) \subseteq UsersOf(p, k)'
  <2>1. Cardinality(UsersOf(p, k)) <= Cardinality(UsersOf(p, k)')
    BY <1>1, <1>4, UserSets
  <2>2. entry[p][k].uses <= Cardinality(UsersOf(p, k)) /\ (entry[p][k].box = NoBox => entry[p][k].uses = 0)
    BY DEF UsesCounted
  <2> QED
    BY <1>0, <1>2, <1>4, <2>1, <2>2
<1> QED
  BY <1>3, <1>4

(* A call goes to its next step; the others stay where they are.             *)
LEMMA GotoTyped ==
  ASSUME pc \in [Calls -> Phases], NEW c \in Calls, NEW s \in Phases, Goto(c, s)
  PROVE  /\ pc' \in [Calls -> Phases] /\ pc'[c] = s
         /\ \A d \in Calls : d # c => pc'[d] = pc[d]
  BY DEF Goto

(* An entry is replaced.                                                     *)
LEMMA EntryTyped ==
  ASSUME entry \in [Procs -> [Keys -> EntryType]], NEW c \in Calls, NEW e \in EntryType, SetEntry(c, e)
  PROVE  /\ entry' \in [Procs -> [Keys -> EntryType]]
         /\ entry'[Home[c]][KeyOf[c]] = e
         /\ \A p \in Procs, k \in Keys :
              p # Home[c] \/ k # KeyOf[c] => entry'[p][k] = entry[p][k]
<1>1. Home[c] \in Procs /\ KeyOf[c] \in Keys
  BY CallsAssumption
<1>2. PICK p, k : p = Home[c] /\ k = KeyOf[c]
  OBVIOUS
<1>3. entry' = [entry EXCEPT ![p] = [entry[p] EXCEPT ![k] = e]]
  BY <1>2 DEF SetEntry
<1> QED
  BY <1>1, <1>2, <1>3

LEMMA NoEntryTyped == NoEntry \in EntryType /\ NoEntry.box = NoBox /\ NoEntry.uses = 0
<1>1. Cardinality(Calls) \in Nat
  BY UserSets
<1> QED
  BY <1>1 DEF NoEntry, EntryType, Uses, BoxOrNone

LEMMA NoRowTyped == NoRow \in RowType
  BY DEF NoRow, RowType, BoxOrNone

(* Entries whose owners' entry has been touched.                             *)
LEMMA TouchedTyped ==
  ASSUME NEW e \in EntryType, NEW i \in BOOLEAN, NEW n \in Uses
  PROVE  /\ [e EXCEPT !.idle = i] \in EntryType /\ [e EXCEPT !.idle = i].uses = e.uses
         /\ [e EXCEPT !.idle = i].box = e.box
         /\ [e EXCEPT !.uses = n, !.idle = i] \in EntryType /\ [e EXCEPT !.uses = n, !.idle = i].uses = n
         /\ [e EXCEPT !.uses = n, !.idle = i].box = e.box
  BY DEF EntryType

LEMMA PersistTyped ==
  ASSUME row \in [Keys -> RowType], NEW k \in Keys, NEW b \in BoxOrNone, NEW l \in BOOLEAN, Persist(k, b, l)
  PROVE  row' \in [Keys -> RowType]
<1>1. PICK r : r = [box |-> b, idle |-> FALSE, leased |-> l]
  OBVIOUS
<1>2. r \in RowType /\ row' = [row EXCEPT ![k] = r]
  BY <1>1 DEF RowType, Persist
<1> QED
  BY <1>2

LEMMA GiveUpTyped ==
  ASSUME TypeOK, NEW c \in Calls, GiveUp(c)
  PROVE  /\ lock' \in [Calls -> Locks \union {NoLock}] /\ found' \in [Calls -> BoxOrNone]
         /\ retried' \in [Calls -> BOOLEAN] /\ Goto(c, "ready")
  BY DEF GiveUp, TypeOK, BoxOrNone

LEMMA InitTyped == Init => TypeOK /\ UsesCounted
<1> SUFFICES ASSUME Init PROVE TypeOK /\ UsesCounted
  OBVIOUS
<1>1. row \in [Keys -> RowType]
  <2>1. ({NoRow} \union [box : Boxes, idle : {FALSE}, leased : BOOLEAN]) \subseteq RowType
    BY NoRowTyped DEF RowType, BoxOrNone
  <2> QED
    BY <2>1 DEF Init
<1>2. alive \subseteq Boxes
  BY <1>1 DEF Init, RowType, BoxOrNone
<1>3. entry \in [Procs -> [Keys -> EntryType]]
  BY NoEntryTyped DEF Init
<1>4. reaper \in [Procs -> [at : {"rest", "kill", "rows"}, doomed : SUBSET Boxes,
                           snap : [Keys -> BoxOrNone], cleared : SUBSET Keys]]
  BY DEF Init, Resting, BoxOrNone
<1>5. UsesCounted
  <2> SUFFICES ASSUME NEW p \in Procs, NEW k \in Keys
               PROVE  /\ entry[p][k].uses <= Cardinality(UsersOf(p, k))
                      /\ entry[p][k].box = NoBox => entry[p][k].uses = 0
    BY DEF UsesCounted
  <2>1. entry[p][k].uses = 0
    BY DEF Init, NoEntry
  <2>2. Cardinality(UsersOf(p, k)) \in Nat
    BY UserSets DEF UsersOf
  <2> QED
    BY <2>1, <2>2
<1>6. pc \in [Calls -> Phases] /\ handle \in [Calls -> BoxOrNone] /\ found \in [Calls -> BoxOrNone]
  BY DEF Init, Phases, BoxOrNone
<1> QED
  BY <1>1, <1>2, <1>3, <1>4, <1>5, <1>6 DEF Init, TypeOK, RowType, EntryType, Uses

(* One more use fits, because the call that adds it is not using the entry.  *)
LEMMA OneMoreUse ==
  ASSUME TypeOK, UsesCounted, NEW c \in Calls, ~Using(c)
  PROVE  /\ Entry(c) \in EntryType /\ Entry(c).uses \in Nat
         /\ Entry(c).uses + 1 \in Uses
         /\ Entry(c).uses <= Cardinality(UsersOf(Home[c], KeyOf[c]))
<1>1. Home[c] \in Procs /\ KeyOf[c] \in Keys
  BY CallsAssumption
<1>2. PICK p \in Procs, k \in Keys : p = Home[c] /\ k = KeyOf[c]
  BY <1>1
<1>3. entry[p][k] \in EntryType /\ entry[p][k].uses <= Cardinality(UsersOf(p, k))
  BY DEF TypeOK, EntryType, Uses, UsesCounted
<1>4. UsersOf(p, k) \subseteq Calls \ {c} /\ Cardinality(Calls \ {c}) = Cardinality(Calls) - 1
  BY UserSets DEF UsersOf
<1>5. Cardinality(UsersOf(p, k)) <= Cardinality(Calls) - 1 /\ Cardinality(UsersOf(p, k)) \in Nat /\ Cardinality(Calls) \in Nat
  BY <1>4, UserSets
<1>6. entry[p][k].uses \in Nat
  BY <1>3, <1>5 DEF EntryType, Uses
<1>7. entry[p][k].uses + 1 \in Uses
  BY <1>3, <1>5, <1>6 DEF Uses
<1> QED
  BY <1>2, <1>3, <1>6, <1>7 DEF Entry

(* A call counts itself in, counts a user out, or leaves its entry with the  *)
(* uses of its users.                                                        *)
LEMMA CallUses ==
  ASSUME TypeOK, UsesCounted, NEW c \in Calls,
         \A d \in Calls : d # c => pc'[d] = pc[d] /\ leased'[d] = leased[d],
         \A p \in Procs, k \in Keys : p # Home[c] \/ k # KeyOf[c] => entry'[p][k] = entry[p][k],
         NEW new, new = entry'[Home[c]][KeyOf[c]],
         \/ new.uses = 0
         \/ new.uses = Entry(c).uses /\ new.box = Entry(c).box /\ (Using(c) => Using(c)')
         \/ new.uses = Entry(c).uses + 1 /\ new.box # NoBox /\ ~Using(c) /\ Using(c)'
         \/ new.uses = Less(Entry(c).uses) /\ new.box # NoBox
  PROVE  UsesCounted'
<1> SUFFICES ASSUME NEW p \in Procs, NEW k \in Keys
             PROVE  /\ entry'[p][k].uses <= Cardinality(UsersOf(p, k)')
                    /\ entry'[p][k].box = NoBox => entry'[p][k].uses = 0
  BY DEF UsesCounted
<1>0. /\ entry[p][k].uses \in Nat /\ entry[p][k].uses <= Cardinality(UsersOf(p, k))
      /\ entry[p][k].box = NoBox => entry[p][k].uses = 0
  <2>1. entry[p][k] \in EntryType
    BY DEF TypeOK, EntryType, Uses
  <2>2. Cardinality(Calls) \in Nat
    BY UserSets
  <2> QED
    BY <2>1, <2>2 DEF EntryType, Uses, UsesCounted
<1>1. /\ UsersOf(p, k) \subseteq Calls /\ UsersOf(p, k)' \subseteq Calls
      /\ UsersOf(p, k) \ {c} \subseteq UsersOf(p, k)' \ {c}
  BY DEF UsersOf, Using
<1>2. Cardinality(UsersOf(p, k)') \in Nat /\ Cardinality(UsersOf(p, k)) \in Nat
  BY <1>1, UserSets
<1>3. CASE p # Home[c] \/ k # KeyOf[c]
  <2>1. c \notin UsersOf(p, k)
    BY <1>3 DEF UsersOf
  <2>2. Cardinality(UsersOf(p, k)) <= Cardinality(UsersOf(p, k)')
    BY <1>1, <2>1, UserSets
  <2> QED
    BY <1>0, <1>2, <1>3, <2>2
<1>4. CASE p = Home[c] /\ k = KeyOf[c]
  <2>0. Entry(c) = entry[p][k] /\ new = entry'[p][k]
    BY <1>4 DEF Entry
  <2>1. CASE new.uses = 0
    BY <1>2, <2>0, <2>1
  <2>2. CASE new.uses = Entry(c).uses /\ new.box = Entry(c).box /\ (Using(c) => Using(c)')
    <3>1. c \in UsersOf(p, k) => c \in UsersOf(p, k)'
      BY <2>2 DEF UsersOf
    <3>2. Cardinality(UsersOf(p, k)) <= Cardinality(UsersOf(p, k)')
      BY <1>1, <3>1, UserSets
    <3> QED
      BY <1>0, <1>2, <2>0, <2>2, <3>2
  <2>3. CASE new.uses = Entry(c).uses + 1 /\ new.box # NoBox /\ ~Using(c) /\ Using(c)'
    <3>1. c \notin UsersOf(p, k) /\ c \in UsersOf(p, k)'
      BY <1>4, <2>3 DEF UsersOf
    <3>2. UsersOf(p, k) \subseteq UsersOf(p, k)' \ {c} /\ UsersOf(p, k)' \ {c} \subseteq Calls
      BY <1>1, <3>1
    <3>3. /\ Cardinality(UsersOf(p, k)) <= Cardinality(UsersOf(p, k)' \ {c})
          /\ Cardinality(UsersOf(p, k)' \ {c}) = Cardinality(UsersOf(p, k)') - 1
      BY <1>1, <3>1, <3>2, UserSets
    <3> QED
      BY <1>0, <1>2, <2>0, <2>3, <3>3
  <2>4. CASE new.uses = Less(Entry(c).uses) /\ new.box # NoBox
    <3>1. CASE c \in UsersOf(p, k)
      <4>1. Cardinality(UsersOf(p, k) \ {c}) = Cardinality(UsersOf(p, k)) - 1
        BY <1>1, <3>1, UserSets
      <4>2. Cardinality(UsersOf(p, k) \ {c}) <= Cardinality(UsersOf(p, k)')
        BY <1>1, UserSets
      <4> QED
        BY <1>0, <1>2, <2>0, <2>4, <4>1, <4>2 DEF Less
    <3>2. CASE c \notin UsersOf(p, k)
      <4>1. Cardinality(UsersOf(p, k)) <= Cardinality(UsersOf(p, k)')
        BY <1>1, <3>2, UserSets
      <4> QED
        BY <1>0, <1>2, <2>0, <2>4, <4>1 DEF Less
    <3> QED
      BY <3>1, <3>2
  <2> QED
    BY <2>1, <2>2, <2>3, <2>4
<1> QED
  BY <1>3, <1>4

SharedTyped ==
  /\ alive \subseteq Boxes
  /\ row \in [Keys -> RowType]
  /\ entry \in [Procs -> [Keys -> EntryType]]
  /\ pending \in [Procs -> SUBSET Keys]
  /\ lockOf \in [Procs -> [Keys -> Locks \union {NoLock}]]
CallsTyped ==
  /\ pc \in [Calls -> Phases]
  /\ handle \in [Calls -> BoxOrNone]
  /\ found \in [Calls -> BoxOrNone]
  /\ lock \in [Calls -> Locks \union {NoLock}]
  /\ leased \in [Calls -> BOOLEAN]
  /\ retried \in [Calls -> BOOLEAN]
Reaping == [at : {"rest", "kill", "rows"}, doomed : SUBSET Boxes,
            snap : [Keys -> BoxOrNone], cleared : SUBSET Keys]
KillingRow == [at : {"rowkill"}, key : Keys, doomed : SUBSET Boxes,
               snap : [Keys -> BoxOrNone], cleared : SUBSET Keys]
Closing == [at : {"kill", "clear"}, key : Keys, box : BoxOrNone]
ReaperTyped == reaper \in [Procs -> Reaping \union KillingRow]
CloserTyped == closer \in [Procs -> {NotClosing} \union Closing]

LEMMA TypeParts ==
  /\ TypeOK <=> SharedTyped /\ CallsTyped /\ ReaperTyped /\ CloserTyped
  /\ TypeOK' <=> SharedTyped' /\ CallsTyped' /\ ReaperTyped' /\ CloserTyped'
  BY DEF TypeOK, SharedTyped, CallsTyped, ReaperTyped, CloserTyped, RowType, EntryType, Uses,
         Reaping, KillingRow, Closing

(* What a call's own step leaves to prove: its variables and the registry.   *)
LEMMA CallTypeStep ==
  ASSUME TypeOK, NEW c \in Calls, UNCHANGED background, SharedTyped', CallsTyped'
  PROVE  TypeOK'
<1>1. ReaperTyped' /\ CloserTyped'
  BY TypeParts DEF ReaperTyped, CloserTyped, background
<1> QED
  BY <1>1, TypeParts

(* A step of a call that leaves the registry alone.                          *)
LEMMA QuietUses ==
  ASSUME TypeOK, UsesCounted, NEW c \in Calls, entry' = entry, leased' = leased,
         \A d \in Calls : d # c => pc'[d] = pc[d], Using(c) => Using(c)'
  PROVE  UsesCounted'
  BY CallUses DEF Entry

(* get_or_create                                                             *)
LEMMA CreationTyped ==
  ASSUME TypeOK, UsesCounted, NEW c \in Calls,
         \/ Call(c) \/ EndTurn(c) \/ Lookup(c) \/ GetLock(c) \/ Acquire(c) \/ Recheck(c) \/ Refresh(c)
         \/ Reserve(c) \/ Load(c) \/ ExpireSaved(c) \/ ClearSaved(c) \/ Create(c) \/ Store(c)
         \/ Install(c) \/ Release(c)
  PROVE  TypeOK' /\ UsesCounted'
<1>0. /\ SharedTyped /\ CallsTyped /\ Home[c] \in Procs /\ KeyOf[c] \in Keys
      /\ Entry(c) \in EntryType /\ row[KeyOf[c]] \in RowType
      /\ pc[c] \in Phases /\ handle[c] \in BoxOrNone /\ found[c] \in BoxOrNone
  <2>1. Home[c] \in Procs /\ KeyOf[c] \in Keys
    BY CallsAssumption
  <2> QED
    BY <2>1, TypeParts DEF SharedTyped, CallsTyped, Entry
<1>1. CASE Call(c)
  <2>1. PICK s \in {"lookup", "begin"} : Goto(c, s) /\ s \in Phases /\ pc[c] = "ready"
    BY <1>1 DEF Call, Phases
  <2>2. /\ pc' \in [Calls -> Phases] /\ ~Using(c)
        /\ \A d \in Calls : d # c => pc'[d] = pc[d]
    BY <1>0, <2>1, GotoTyped DEF CallsTyped, Using
  <2>3. SharedTyped' /\ CallsTyped'
    BY <1>0, <1>1, <2>2 DEF Call, SharedTyped, CallsTyped, shared, locals
  <2>4. UsesCounted'
    BY <1>1, <2>2, QuietUses DEF Call, shared, locals
  <2> QED
    BY <1>1, <2>3, <2>4, CallTypeStep DEF Call
<1>2. CASE EndTurn(c)
  <2>1. SharedTyped' /\ CallsTyped'
    BY <1>0, <1>2 DEF EndTurn, SharedTyped, CallsTyped, shared, BoxOrNone
  <2>2. UsesCounted'
    BY <1>2, QuietUses DEF EndTurn, shared, Using
  <2> QED
    BY <1>2, <2>1, <2>2, CallTypeStep DEF EndTurn
<1>3. CASE Lookup(c)
  <2>1. PICK s \in {"begin", "getlock"} : Goto(c, s) /\ s \in Phases /\ pc[c] = "lookup"
    BY <1>3 DEF Lookup, Phases
  <2>2. /\ pc' \in [Calls -> Phases] /\ ~Using(c)
        /\ \A d \in Calls : d # c => pc'[d] = pc[d]
    BY <1>0, <2>1, GotoTyped DEF CallsTyped, Using
  <2>3. PICK e \in EntryType : SetEntry(c, e) /\ (e.uses = 0 \/ (e.uses = Entry(c).uses /\ e.box = Entry(c).box))
    <3>1. [Entry(c) EXCEPT !.idle = FALSE] \in EntryType
          /\ [Entry(c) EXCEPT !.idle = FALSE].uses = Entry(c).uses /\ [Entry(c) EXCEPT !.idle = FALSE].box = Entry(c).box
      BY <1>0, TouchedTyped, NoEntryTyped DEF EntryType
    <3> QED
      BY <1>3, <3>1, NoEntryTyped DEF Lookup
  <2>4. /\ entry' \in [Procs -> [Keys -> EntryType]] /\ entry'[Home[c]][KeyOf[c]] = e
        /\ \A p \in Procs, k \in Keys : p # Home[c] \/ k # KeyOf[c] => entry'[p][k] = entry[p][k]
    BY <1>0, <2>3, EntryTyped DEF SharedTyped
  <2>5. row' \in [Keys -> RowType] /\ handle' \in [Calls -> BoxOrNone]
    <3>1. CASE UNCHANGED <<row, handle>>
      BY <1>0, <3>1 DEF SharedTyped, CallsTyped
    <3>2. CASE Persist(KeyOf[c], Entry(c).box, FALSE) /\ handle' = [handle EXCEPT ![c] = Entry(c).box]
      <4>1. Entry(c).box \in BoxOrNone
        BY <1>0 DEF EntryType
      <4> QED
        BY <1>0, <3>2, <4>1, PersistTyped DEF SharedTyped, CallsTyped
    <3> QED
      BY <1>3, <3>1, <3>2 DEF Lookup
  <2>6. SharedTyped' /\ CallsTyped'
    BY <1>0, <1>3, <2>2, <2>4, <2>5 DEF Lookup, SharedTyped, CallsTyped
  <2>7. UsesCounted'
    BY <1>3, <2>2, <2>3, <2>4, CallUses DEF Lookup
  <2> QED
    BY <1>3, <2>6, <2>7, CallTypeStep DEF Lookup
<1>4. CASE GetLock(c)
  <2>1. Goto(c, "acquire") /\ "acquire" \in Phases /\ pc[c] = "getlock"
    BY <1>4 DEF GetLock, Phases
  <2>2. /\ pc' \in [Calls -> Phases] /\ ~Using(c)
        /\ \A d \in Calls : d # c => pc'[d] = pc[d]
    BY <1>0, <2>1, GotoTyped DEF CallsTyped, Using
  <2>3. lockOf' \in [Procs -> [Keys -> Locks \union {NoLock}]] /\ lock' \in [Calls -> Locks \union {NoLock}]
    <3>1. PICK l \in Locks : /\ lockOf' = [lockOf EXCEPT ![Home[c]][KeyOf[c]] = l]
                             /\ lock' = [lock EXCEPT ![c] = l]
      BY <1>4 DEF GetLock
    <3>2. PICK f : f = [lockOf[Home[c]] EXCEPT ![KeyOf[c]] = l]
      OBVIOUS
    <3>3. f \in [Keys -> Locks \union {NoLock}] /\ lockOf' = [lockOf EXCEPT ![Home[c]] = f]
      BY <1>0, <3>1, <3>2 DEF SharedTyped
    <3> QED
      BY <1>0, <3>1, <3>3 DEF SharedTyped, CallsTyped
  <2>4. SharedTyped' /\ CallsTyped'
    BY <1>0, <1>4, <2>2, <2>3 DEF GetLock, SharedTyped, CallsTyped
  <2>5. UsesCounted'
    BY <1>4, <2>2, QuietUses DEF GetLock
  <2> QED
    BY <1>4, <2>4, <2>5, CallTypeStep DEF GetLock
<1>5. CASE Acquire(c)
  <2>1. PICK s \in {"reserve", "recheck"} : Goto(c, s) /\ s \in Phases /\ pc[c] = "acquire"
    BY <1>5 DEF Acquire, Phases
  <2>2. /\ pc' \in [Calls -> Phases] /\ ~Using(c)
        /\ \A d \in Calls : d # c => pc'[d] = pc[d]
    BY <1>0, <2>1, GotoTyped DEF CallsTyped, Using
  <2>3. found' \in [Calls -> BoxOrNone]
    BY <1>0, <1>5 DEF Acquire, CallsTyped, EntryType
  <2>4. SharedTyped' /\ CallsTyped'
    BY <1>0, <1>5, <2>2, <2>3 DEF Acquire, SharedTyped, CallsTyped, shared
  <2>5. UsesCounted'
    BY <1>5, <2>2, QuietUses DEF Acquire, shared
  <2> QED
    BY <1>5, <2>4, <2>5, CallTypeStep DEF Acquire
<1>6. CASE Recheck(c)
  <2>1. PICK s \in {"refresh", "reserve"} : Goto(c, s) /\ s \in Phases /\ pc[c] = "recheck"
    BY <1>6 DEF Recheck, Phases
  <2>2. /\ pc' \in [Calls -> Phases] /\ ~Using(c)
        /\ \A d \in Calls : d # c => pc'[d] = pc[d]
    BY <1>0, <2>1, GotoTyped DEF CallsTyped, Using
  <2>3. found' \in [Calls -> BoxOrNone]
    BY <1>0, <1>6 DEF Recheck, CallsTyped, BoxOrNone
  <2>4. CASE entry' = entry
    <3>1. SharedTyped' /\ CallsTyped'
      BY <1>0, <1>6, <2>2, <2>3, <2>4 DEF Recheck, SharedTyped, CallsTyped
    <3>2. UsesCounted'
      BY <1>6, <2>2, <2>4, QuietUses DEF Recheck
    <3> QED
      BY <1>6, <3>1, <3>2, CallTypeStep DEF Recheck
  <2>5. CASE SetEntry(c, NoEntry)
    <3>1. /\ entry' \in [Procs -> [Keys -> EntryType]] /\ entry'[Home[c]][KeyOf[c]] = NoEntry
          /\ \A p \in Procs, k \in Keys : p # Home[c] \/ k # KeyOf[c] => entry'[p][k] = entry[p][k]
      BY <1>0, <2>5, EntryTyped, NoEntryTyped DEF SharedTyped
    <3>2. SharedTyped' /\ CallsTyped'
      BY <1>0, <1>6, <2>2, <2>3, <3>1 DEF Recheck, SharedTyped, CallsTyped
    <3>3. UsesCounted'
      BY <1>6, <2>2, <3>1, NoEntryTyped, CallUses DEF Recheck
    <3> QED
      BY <1>6, <3>2, <3>3, CallTypeStep DEF Recheck
  <2> QED
    BY <1>6, <2>4, <2>5 DEF Recheck
<1>7. CASE Refresh(c)
  <2>1. PICK s \in {"begin"} : Goto(c, s) /\ s \in Phases /\ pc[c] = "refresh"
    BY <1>7 DEF Refresh, Phases, Creating, GiveUp
  <2>2. /\ pc' \in [Calls -> Phases] /\ ~Using(c)
        /\ \A d \in Calls : d # c => pc'[d] = pc[d]
    BY <1>0, <2>1, GotoTyped DEF CallsTyped, Using
  <2>3. PICK e \in EntryType :
          e.uses = Entry(c).uses /\ e.box = Entry(c).box /\ ((entry' = entry /\ e = Entry(c)) \/ SetEntry(c, e))
    <3>1. [Entry(c) EXCEPT !.idle = FALSE] \in EntryType
          /\ [Entry(c) EXCEPT !.idle = FALSE].uses = Entry(c).uses /\ [Entry(c) EXCEPT !.idle = FALSE].box = Entry(c).box
      BY <1>0, TouchedTyped, NoEntryTyped DEF EntryType
    <3> QED
      BY <1>0, <1>7, <3>1 DEF Refresh
  <2>4. /\ entry' \in [Procs -> [Keys -> EntryType]] /\ entry'[Home[c]][KeyOf[c]] = e
        /\ \A p \in Procs, k \in Keys : p # Home[c] \/ k # KeyOf[c] => entry'[p][k] = entry[p][k]
    BY <1>0, <2>3, EntryTyped DEF SharedTyped, Entry
  <2>5. row' \in [Keys -> RowType]
    BY <1>0, <1>7, PersistTyped DEF Refresh, SharedTyped
  <2>6. /\ handle' \in [Calls -> BoxOrNone] /\ found' \in [Calls -> BoxOrNone]
        /\ lock' \in [Calls -> Locks \union {NoLock}]
    BY <1>0, <1>7 DEF Refresh, CallsTyped, BoxOrNone
  <2>8. SharedTyped' /\ CallsTyped'
    BY <1>0, <1>7, <2>2, <2>4, <2>5, <2>6 DEF Refresh, SharedTyped, CallsTyped
  <2>9. UsesCounted'
    BY <1>7, <2>2, <2>3, <2>4, CallUses DEF Refresh
  <2> QED
    BY <1>7, <2>8, <2>9, CallTypeStep DEF Refresh
<1>8. CASE Reserve(c)
  <2>1. PICK s \in {"ready", "load"} : Goto(c, s) /\ s \in Phases /\ pc[c] = "reserve"
    BY <1>8 DEF Reserve, Phases, Creating, GiveUp
  <2>2. /\ pc' \in [Calls -> Phases] /\ ~Using(c)
        /\ \A d \in Calls : d # c => pc'[d] = pc[d]
    BY <1>0, <2>1, GotoTyped DEF CallsTyped, Using
  <2>3. /\ lock' \in [Calls -> Locks \union {NoLock}] /\ found' \in [Calls -> BoxOrNone]
        /\ retried' \in [Calls -> BOOLEAN]
    BY <1>0, <1>8, GiveUpTyped DEF Reserve, CallsTyped
  <2>4. pending' \in [Procs -> SUBSET Keys]
    BY <1>0, <1>8 DEF Reserve, SharedTyped
  <2>8. SharedTyped' /\ CallsTyped'
    BY <1>0, <1>8, <2>2, <2>3, <2>4 DEF Reserve, SharedTyped, CallsTyped, shared, locals
  <2>9. UsesCounted'
    BY <1>8, <2>2, QuietUses DEF Reserve, shared, locals
  <2> QED
    BY <1>8, <2>8, <2>9, CallTypeStep DEF Reserve
<1>9. CASE Load(c)
  <2>1. PICK s \in {"expire", "create"} : Goto(c, s) /\ s \in Phases /\ pc[c] = "load"
    BY <1>9 DEF Load, Phases, Creating, GiveUp
  <2>2. /\ pc' \in [Calls -> Phases] /\ ~Using(c)
        /\ \A d \in Calls : d # c => pc'[d] = pc[d]
    BY <1>0, <2>1, GotoTyped DEF CallsTyped, Using
  <2>3. found' \in [Calls -> BoxOrNone]
    BY <1>0, <1>9, NoRowTyped DEF Load, CallsTyped, RowType
  <2>8. SharedTyped' /\ CallsTyped'
    BY <1>0, <1>9, <2>2, <2>3 DEF Load, SharedTyped, CallsTyped, shared, locals
  <2>9. UsesCounted'
    BY <1>9, <2>2, QuietUses DEF Load, shared, locals
  <2> QED
    BY <1>9, <2>8, <2>9, CallTypeStep DEF Load
<1>10. CASE ExpireSaved(c)
  <2>1. PICK s \in {"clear", "create"} : Goto(c, s) /\ s \in Phases /\ pc[c] = "expire"
    BY <1>10 DEF ExpireSaved, Phases, Creating, GiveUp
  <2>2. /\ pc' \in [Calls -> Phases] /\ ~Using(c)
        /\ \A d \in Calls : d # c => pc'[d] = pc[d]
    BY <1>0, <2>1, GotoTyped DEF CallsTyped, Using
  <2>3. found' \in [Calls -> BoxOrNone] /\ alive' \subseteq Boxes
    BY <1>0, <1>10 DEF ExpireSaved, SharedTyped, CallsTyped, BoxOrNone
  <2>8. SharedTyped' /\ CallsTyped'
    BY <1>0, <1>10, <2>2, <2>3 DEF ExpireSaved, SharedTyped, CallsTyped, shared, locals
  <2>9. UsesCounted'
    BY <1>10, <2>2, QuietUses DEF ExpireSaved, shared, locals
  <2> QED
    BY <1>10, <2>8, <2>9, CallTypeStep DEF ExpireSaved
<1>11. CASE ClearSaved(c)
  <2>1. PICK s \in {"create"} : Goto(c, s) /\ s \in Phases /\ pc[c] = "clear"
    BY <1>11 DEF ClearSaved, Phases, Creating, GiveUp
  <2>2. /\ pc' \in [Calls -> Phases] /\ ~Using(c)
        /\ \A d \in Calls : d # c => pc'[d] = pc[d]
    BY <1>0, <2>1, GotoTyped DEF CallsTyped, Using
  <2>3. row' \in [Keys -> RowType]
    BY <1>0, <1>11, NoRowTyped DEF ClearSaved, SharedTyped
  <2>8. SharedTyped' /\ CallsTyped'
    BY <1>0, <1>11, <2>2, <2>3 DEF ClearSaved, SharedTyped, CallsTyped, shared, locals
  <2>9. UsesCounted'
    BY <1>11, <2>2, QuietUses DEF ClearSaved, shared, locals
  <2> QED
    BY <1>11, <2>8, <2>9, CallTypeStep DEF ClearSaved
<1>12. CASE Create(c)
  <2>1. PICK s \in {"store", "clear", "release"} : Goto(c, s) /\ s \in Phases /\ pc[c] = "create"
    BY <1>12 DEF Create, Phases, Creating, GiveUp
  <2>2. /\ pc' \in [Calls -> Phases] /\ ~Using(c)
        /\ \A d \in Calls : d # c => pc'[d] = pc[d]
    BY <1>0, <2>1, GotoTyped DEF CallsTyped, Using
  <2>3. found' \in [Calls -> BoxOrNone] /\ alive' \subseteq Boxes
    BY <1>0, <1>12 DEF Create, SharedTyped, CallsTyped, BoxOrNone
  <2>8. SharedTyped' /\ CallsTyped'
    BY <1>0, <1>12, <2>2, <2>3 DEF Create, SharedTyped, CallsTyped, shared, locals
  <2>9. UsesCounted'
    BY <1>12, <2>2, QuietUses DEF Create, shared, locals
  <2> QED
    BY <1>12, <2>8, <2>9, CallTypeStep DEF Create
<1>13. CASE Store(c)
  <2>1. PICK s \in {"install"} : Goto(c, s) /\ s \in Phases /\ pc[c] = "store"
    BY <1>13 DEF Store, Phases, Creating, GiveUp
  <2>2. /\ pc' \in [Calls -> Phases] /\ ~Using(c)
        /\ \A d \in Calls : d # c => pc'[d] = pc[d]
    BY <1>0, <2>1, GotoTyped DEF CallsTyped, Using
  <2>3. row' \in [Keys -> RowType]
    BY <1>0, <1>13, PersistTyped DEF Store, SharedTyped
  <2>8. SharedTyped' /\ CallsTyped'
    BY <1>0, <1>13, <2>2, <2>3 DEF Store, SharedTyped, CallsTyped, shared, locals
  <2>9. UsesCounted'
    BY <1>13, <2>2, QuietUses DEF Store, shared, locals
  <2> QED
    BY <1>13, <2>8, <2>9, CallTypeStep DEF Store
<1>14. CASE Install(c)
  <2>1. PICK s \in {"release"} : Goto(c, s) /\ s \in Phases /\ pc[c] = "install"
    BY <1>14 DEF Install, Phases, Creating, GiveUp
  <2>2. /\ pc' \in [Calls -> Phases] /\ ~Using(c)
        /\ \A d \in Calls : d # c => pc'[d] = pc[d]
    BY <1>0, <2>1, GotoTyped DEF CallsTyped, Using
  <2>3. PICK e \in EntryType : SetEntry(c, e) /\ e.uses = 0
    <3>1. Cardinality(Calls) \in Nat
      BY UserSets
    <3>2. [box |-> found[c], uses |-> 0, idle |-> FALSE] \in EntryType
      BY <1>0, <3>1 DEF EntryType, Uses
    <3> QED
      BY <1>14, <3>2 DEF Install
  <2>4. /\ entry' \in [Procs -> [Keys -> EntryType]] /\ entry'[Home[c]][KeyOf[c]] = e
        /\ \A p \in Procs, k \in Keys : p # Home[c] \/ k # KeyOf[c] => entry'[p][k] = entry[p][k]
    BY <1>0, <2>3, EntryTyped DEF SharedTyped
  <2>8. SharedTyped' /\ CallsTyped'
    BY <1>0, <1>14, <2>2, <2>4 DEF Install, SharedTyped, CallsTyped, locals
  <2>9. UsesCounted'
    BY <1>14, <2>2, <2>3, <2>4, CallUses DEF Install, locals
  <2> QED
    BY <1>14, <2>8, <2>9, CallTypeStep DEF Install
<1>15. CASE Release(c)
  <2>1. PICK s \in {"ready", "begin"} : Goto(c, s) /\ s \in Phases /\ pc[c] = "release"
    BY <1>15 DEF Release, Phases, Creating, GiveUp
  <2>2. /\ pc' \in [Calls -> Phases] /\ ~Using(c)
        /\ \A d \in Calls : d # c => pc'[d] = pc[d]
    BY <1>0, <2>1, GotoTyped DEF CallsTyped, Using
  <2>3. /\ lock' \in [Calls -> Locks \union {NoLock}] /\ found' \in [Calls -> BoxOrNone]
        /\ retried' \in [Calls -> BOOLEAN] /\ handle' \in [Calls -> BoxOrNone]
    <3>1. CASE found[c] = NoBox
      BY <1>0, <1>15, <3>1, GiveUpTyped DEF Release, CallsTyped
    <3>2. CASE found[c] # NoBox
      BY <1>0, <1>15, <3>2 DEF Release, CallsTyped, BoxOrNone
    <3> QED
      BY <3>1, <3>2
  <2>4. pending' \in [Procs -> SUBSET Keys]
    BY <1>0, <1>15 DEF Release, SharedTyped
  <2>8. SharedTyped' /\ CallsTyped'
    BY <1>0, <1>15, <2>2, <2>3, <2>4 DEF Release, SharedTyped, CallsTyped, shared, locals
  <2>9. UsesCounted'
    BY <1>15, <2>2, QuietUses DEF Release, shared, locals
  <2> QED
    BY <1>15, <2>8, <2>9, CallTypeStep DEF Release
<1> QED
  BY <1>1, <1>2, <1>3, <1>4, <1>5, <1>6, <1>7, <1>8, <1>9, <1>10, <1>11, <1>12, <1>13, <1>14, <1>15

(* A step of a call that sets its entry to e, whose uses are as in CallUses. *)
LEMMA EntryUses ==
  ASSUME TypeOK, UsesCounted, NEW c \in Calls, NEW e \in EntryType, SetEntry(c, e),
         \A d \in Calls : d # c => pc'[d] = pc[d] /\ leased'[d] = leased[d],
         \/ e.uses = 0
         \/ e.uses = Entry(c).uses /\ e.box = Entry(c).box /\ (Using(c) => Using(c)')
         \/ e.uses = Entry(c).uses + 1 /\ e.box # NoBox /\ ~Using(c) /\ Using(c)'
         \/ e.uses = Less(Entry(c).uses) /\ e.box # NoBox
  PROVE  UsesCounted' /\ entry' \in [Procs -> [Keys -> EntryType]]
<1>1. /\ entry' \in [Procs -> [Keys -> EntryType]] /\ entry'[Home[c]][KeyOf[c]] = e
      /\ \A p \in Procs, k \in Keys : p # Home[c] \/ k # KeyOf[c] => entry'[p][k] = entry[p][k]
  BY EntryTyped, TypeParts DEF SharedTyped
<1> QED
  BY <1>1, CallUses

(* begin_use, the command, end_use and the recovery                          *)
LEMMA UseTyped ==
  ASSUME TypeOK, UsesCounted, NEW c \in Calls,
         Begin(c) \/ BeginTouch(c) \/ RunReturns(c) \/ End(c) \/ EndTouch(c) \/ Drop(c) \/ Recover(c)
  PROVE  TypeOK' /\ UsesCounted'
<1>0. /\ SharedTyped /\ CallsTyped /\ Home[c] \in Procs /\ KeyOf[c] \in Keys
      /\ Entry(c) \in EntryType /\ Entry(c).uses \in Nat
      /\ pc[c] \in Phases /\ handle[c] \in BoxOrNone /\ found[c] \in BoxOrNone
  <2>1. Home[c] \in Procs /\ KeyOf[c] \in Keys
    BY CallsAssumption
  <2>2. Cardinality(Calls) \in Nat
    BY UserSets
  <2> QED
    BY <2>1, <2>2, TypeParts DEF SharedTyped, CallsTyped, Entry, EntryType, Uses
<1>1. CASE Begin(c)
  <2>1. PICK s \in {"run", "touch"} :
          Goto(c, s) /\ s \in Phases /\ pc[c] = "begin" /\ (Entry(c).box # NoBox <=> s = "touch")
    BY <1>1 DEF Begin, Phases
  <2>2. /\ pc' \in [Calls -> Phases] /\ ~Using(c) /\ pc'[c] = s
        /\ \A d \in Calls : d # c => pc'[d] = pc[d]
    BY <1>0, <2>1, GotoTyped DEF CallsTyped, Using
  <2>3. found' \in [Calls -> BoxOrNone]
    BY <1>0, <1>1 DEF Begin, CallsTyped, EntryType
  <2>4. UsesCounted' /\ entry' \in [Procs -> [Keys -> EntryType]]
    <3>1. CASE Entry(c).box = NoBox
      <4>1. entry' = entry /\ leased' = leased
        BY <1>1, <3>1 DEF Begin
      <4> QED
        BY <1>0, <2>2, <4>1, QuietUses DEF SharedTyped
    <3>2. CASE Entry(c).box # NoBox
      <4>1. PICK e : e = [Entry(c) EXCEPT !.uses = @ + 1, !.idle = FALSE]
        OBVIOUS
      <4>2. e \in EntryType /\ e.uses = Entry(c).uses + 1 /\ e.box # NoBox
        BY <1>0, <2>2, <3>2, <4>1, OneMoreUse DEF EntryType
      <4>3. SetEntry(c, e) /\ leased' = leased /\ Using(c)'
        BY <1>1, <2>1, <2>2, <3>2, <4>1 DEF Begin, Using
      <4> QED
        BY <2>2, <4>2, <4>3, EntryUses
    <3> QED
      BY <3>1, <3>2
  <2>5. SharedTyped' /\ CallsTyped'
    BY <1>0, <1>1, <2>2, <2>3, <2>4 DEF Begin, SharedTyped, CallsTyped
  <2> QED
    BY <1>1, <2>4, <2>5, CallTypeStep DEF Begin
<1>2. CASE BeginTouch(c)
  <2>1. PICK s \in {"run", "drop"} : Goto(c, s) /\ s \in Phases /\ pc[c] = "touch" /\ (s = "run" => leased'[c])
    BY <1>0, <1>2 DEF BeginTouch, Phases, CallsTyped
  <2>2. /\ pc' \in [Calls -> Phases] /\ Using(c)'
        /\ \A d \in Calls : d # c => pc'[d] = pc[d]
    BY <1>0, <2>1, GotoTyped DEF CallsTyped, Using
  <2>3. /\ found' \in [Calls -> BoxOrNone] /\ leased' \in [Calls -> BOOLEAN]
        /\ \A d \in Calls : d # c => leased'[d] = leased[d]
    BY <1>0, <1>2 DEF BeginTouch, CallsTyped, BoxOrNone
  <2>4. row' \in [Keys -> RowType]
    BY <1>0, <1>2, PersistTyped DEF BeginTouch, SharedTyped
  <2>5. UsesCounted'
    <3>1. entry' = entry
      BY <1>2 DEF BeginTouch
    <3> QED
      BY <2>2, <2>3, <3>1, CallUses DEF Entry
  <2>6. SharedTyped' /\ CallsTyped'
    BY <1>0, <1>2, <2>2, <2>3, <2>4 DEF BeginTouch, SharedTyped, CallsTyped
  <2> QED
    BY <1>2, <2>5, <2>6, CallTypeStep DEF BeginTouch
<1>3. CASE RunReturns(c)
  <2>1. PICK s \in {"ready", "end", "fail", "recover"} :
          Goto(c, s) /\ s \in Phases /\ pc[c] = "run" /\ (leased[c] => s \in {"end", "fail"})
    BY <1>3 DEF RunReturns, Finish, Phases
  <2>2. /\ pc' \in [Calls -> Phases] /\ (Using(c) => Using(c)')
        /\ \A d \in Calls : d # c => pc'[d] = pc[d]
    BY <1>0, <1>3, <2>1, GotoTyped DEF CallsTyped, Using, RunReturns
  <2>3. retried' \in [Calls -> BOOLEAN]
    BY <1>0, <1>3 DEF RunReturns, Finish, CallsTyped
  <2>4. SharedTyped' /\ CallsTyped'
    BY <1>0, <1>3, <2>2, <2>3 DEF RunReturns, SharedTyped, CallsTyped, shared
  <2>5. UsesCounted'
    BY <1>3, <2>2, QuietUses DEF RunReturns, shared
  <2> QED
    BY <1>3, <2>4, <2>5, CallTypeStep DEF RunReturns
<1>4. CASE End(c)
  <2>1. PICK s \in {"untouch", "unfail", "ready", "recover"} : Goto(c, s) /\ s \in Phases
    BY <1>4 DEF End, Finish, Phases
  <2>2. /\ pc' \in [Calls -> Phases]
        /\ \A d \in Calls : d # c => pc'[d] = pc[d]
    BY <1>0, <2>1, GotoTyped DEF CallsTyped
  <2>3. /\ found' \in [Calls -> BoxOrNone] /\ leased' \in [Calls -> BOOLEAN] /\ retried' \in [Calls -> BOOLEAN]
        /\ \A d \in Calls : d # c => leased'[d] = leased[d]
    <3>1. leased' = [leased EXCEPT ![c] = FALSE]
      BY <1>4 DEF End
    <3>2. found' = found \/ found' = [found EXCEPT ![c] = Entry(c).box]
      BY <1>4 DEF End
    <3>3. retried' = retried \/ retried' = [retried EXCEPT ![c] = FALSE]
      BY <1>4 DEF End, Finish
    <3> QED
      BY <1>0, <3>1, <3>2, <3>3 DEF CallsTyped, EntryType
  <2>4. UsesCounted' /\ entry' \in [Procs -> [Keys -> EntryType]]
    <3>1. CASE Entry(c).box = NoBox
      <4>1. entry' = entry /\ Entry(c).uses = 0
        BY <1>0, <1>4, <3>1 DEF End, UsesCounted, Entry
      <4> QED
        BY <1>0, <2>2, <2>3, <4>1, CallUses DEF Entry, SharedTyped
    <3>2. CASE Entry(c).box # NoBox
      <4>1. PICK e : e = [Entry(c) EXCEPT !.uses = Less(@), !.idle = FALSE]
        OBVIOUS
      <4>2. Less(Entry(c).uses) \in Uses
        <5>1. Entry(c).uses \in Uses /\ Cardinality(Calls) \in Nat
          BY <1>0, UserSets DEF EntryType
        <5> QED
          BY <5>1 DEF Less, Uses
      <4>3. e \in EntryType /\ e.uses = Less(Entry(c).uses) /\ e.box # NoBox
        BY <1>0, <3>2, <4>1, <4>2 DEF EntryType
      <4>4. SetEntry(c, e)
        BY <1>4, <3>2, <4>1 DEF End
      <4> QED
        BY <2>2, <2>3, <4>3, <4>4, EntryUses
    <3> QED
      BY <3>1, <3>2
  <2>5. SharedTyped' /\ CallsTyped'
    BY <1>0, <1>4, <2>2, <2>3, <2>4 DEF End, SharedTyped, CallsTyped
  <2> QED
    BY <1>4, <2>4, <2>5, CallTypeStep DEF End
<1>5. CASE EndTouch(c)
  <2>1. PICK s \in {"ready", "recover", "drop"} : Goto(c, s) /\ s \in Phases /\ pc[c] \in {"untouch", "unfail"}
    BY <1>5 DEF EndTouch, Finish, Phases
  <2>2. /\ pc' \in [Calls -> Phases] /\ ~Using(c)
        /\ \A d \in Calls : d # c => pc'[d] = pc[d]
    BY <1>0, <2>1, GotoTyped DEF CallsTyped, Using
  <2>3. found' \in [Calls -> BoxOrNone] /\ retried' \in [Calls -> BOOLEAN]
    BY <1>0, <1>5 DEF EndTouch, Finish, CallsTyped, BoxOrNone
  <2>4. row' \in [Keys -> RowType]
    BY <1>0, <1>5, PersistTyped DEF EndTouch, SharedTyped
  <2>5. SharedTyped' /\ CallsTyped'
    BY <1>0, <1>5, <2>2, <2>3, <2>4 DEF EndTouch, SharedTyped, CallsTyped
  <2>6. UsesCounted'
    BY <1>5, <2>2, QuietUses DEF EndTouch
  <2> QED
    BY <1>5, <2>5, <2>6, CallTypeStep DEF EndTouch
<1>6. CASE Drop(c)
  <2>1. Goto(c, "recover") /\ "recover" \in Phases
    BY <1>6 DEF Drop, Phases
  <2>2. /\ pc' \in [Calls -> Phases]
        /\ \A d \in Calls : d # c => pc'[d] = pc[d]
    BY <1>0, <2>1, GotoTyped DEF CallsTyped
  <2>3. UsesCounted' /\ entry' \in [Procs -> [Keys -> EntryType]]
    BY <1>6, <2>2, NoEntryTyped, EntryUses DEF Drop, locals
  <2>4. SharedTyped' /\ CallsTyped'
    BY <1>0, <1>6, <2>2, <2>3 DEF Drop, SharedTyped, CallsTyped, locals
  <2> QED
    BY <1>6, <2>3, <2>4, CallTypeStep DEF Drop
<1>7. CASE Recover(c)
  <2>1. PICK s \in {"ready", "lookup"} : Goto(c, s) /\ s \in Phases /\ pc[c] = "recover"
    BY <1>7 DEF Recover, Finish, Phases
  <2>2. /\ pc' \in [Calls -> Phases] /\ ~Using(c)
        /\ \A d \in Calls : d # c => pc'[d] = pc[d]
    BY <1>0, <2>1, GotoTyped DEF CallsTyped, Using
  <2>3. retried' \in [Calls -> BOOLEAN]
    BY <1>0, <1>7 DEF Recover, Finish, CallsTyped
  <2>4. UsesCounted' /\ entry' \in [Procs -> [Keys -> EntryType]]
    <3>1. CASE entry' = entry
      BY <1>0, <1>7, <2>2, <3>1, QuietUses DEF Recover, SharedTyped
    <3>2. CASE SetEntry(c, NoEntry)
      BY <1>7, <2>2, <3>2, NoEntryTyped, EntryUses DEF Recover
    <3> QED
      BY <1>7, <3>1, <3>2 DEF Recover
  <2>5. SharedTyped' /\ CallsTyped'
    BY <1>0, <1>7, <2>2, <2>3, <2>4 DEF Recover, SharedTyped, CallsTyped
  <2> QED
    BY <1>7, <2>4, <2>5, CallTypeStep DEF Recover
<1> QED
  BY <1>1, <1>2, <1>3, <1>4, <1>5, <1>6, <1>7

(* The calls stay where they are, and the entries with them or go.           *)
LEMMA ReapUses ==
  ASSUME TypeOK, UsesCounted, UNCHANGED calls,
         \A p \in Procs, k \in Keys :
           \/ entry'[p][k].uses = 0
           \/ entry'[p][k].uses = entry[p][k].uses /\ entry'[p][k].box = entry[p][k].box
  PROVE  UsesCounted'
<1>1. \A p \in Procs, k \in Keys : UsersOf(p, k)' = UsersOf(p, k)
  BY DEF UsersOf, Using, calls, locals
<1> QED
  BY <1>1, UsesKept, TypeParts DEF SharedTyped

(* What a reaper goes on with.                                               *)
LEMMA BecomesTyped ==
  ASSUME ReaperTyped, NEW p \in Procs, NEW r \in Reaping \union KillingRow, Becomes(p, r)
  PROVE  ReaperTyped'
  BY DEF ReaperTyped, Becomes

LEMMA BackgroundTyped ==
  ASSUME TypeOK, UsesCounted,
         \/ \E p \in Procs : Reap(p) \/ (\E k \in Keys : CloseEntry(p, k)) \/ CloseKill(p) \/ CloseRow(p) \/ Crash(p)
         \/ \E b \in Boxes : Expire(b)
         \/ TimePasses
  PROVE  TypeOK' /\ UsesCounted'
<1>0. SharedTyped /\ CallsTyped /\ ReaperTyped /\ CloserTyped
  BY TypeParts
<1>c. UNCHANGED calls => CallsTyped'
  BY <1>0 DEF CallsTyped, calls, locals
<1>e. entry' = entry /\ UNCHANGED calls => UsesCounted'
  BY ReapUses
<1>1. ASSUME NEW p \in Procs, ReapEntries(p) PROVE TypeOK' /\ UsesCounted'
  <2>1. reaper[p] \in Reaping
    BY <1>0, <1>1 DEF ReapEntries, ReaperTyped, KillingRow
  <2>2. PICK D : D = {entry[p][k].box : k \in {j \in Keys : Stale(p, j)}}
    OBVIOUS
  <2>3. D \subseteq Boxes
    BY <1>0, <2>2 DEF Stale, Registered, SharedTyped, EntryType, BoxOrNone
  <2>4. ReaperTyped'
    <3>1. PICK r : r = [reaper[p] EXCEPT !.at = "kill", !.doomed = D]
      OBVIOUS
    <3>2. r \in Reaping
      BY <2>1, <2>3, <3>1 DEF Reaping
    <3>3. Becomes(p, r)
      BY <1>1, <2>2, <3>1 DEF ReapEntries
    <3> QED
      BY <1>0, <3>2, <3>3, BecomesTyped
  <2>5. PICK f : f = [k \in Keys |-> IF Stale(p, k) THEN NoEntry ELSE entry[p][k]]
    OBVIOUS
  <2>6. f \in [Keys -> EntryType] /\ \A k \in Keys : f[k] = entry[p][k] \/ f[k] = NoEntry
    BY <1>0, <2>5, NoEntryTyped DEF SharedTyped
  <2>7. entry' = [entry EXCEPT ![p] = f]
    BY <1>1, <2>5 DEF ReapEntries
  <2>8. /\ entry' \in [Procs -> [Keys -> EntryType]]
        /\ \A q \in Procs, k \in Keys : entry'[q][k] = entry[q][k] \/ entry'[q][k] = NoEntry
    BY <1>0, <2>6, <2>7 DEF SharedTyped
  <2>9. UsesCounted'
    BY <1>1, <2>8, NoEntryTyped, ReapUses DEF ReapEntries
  <2>10. SharedTyped' /\ CallsTyped' /\ CloserTyped'
    BY <1>0, <1>1, <1>c, <2>8 DEF ReapEntries, SharedTyped, CloserTyped
  <2> QED
    BY <2>4, <2>9, <2>10, TypeParts
<1>2. ASSUME NEW p \in Procs, ReapKill(p) PROVE TypeOK' /\ UsesCounted'
  <2>1. reaper[p] \in Reaping
    BY <1>0, <1>2 DEF ReapKill, ReaperTyped, KillingRow
  <2>2. PICK b \in reaper[p].doomed : Becomes(p, [reaper[p] EXCEPT !.doomed = @ \ {b}])
    BY <1>2 DEF ReapKill
  <2>r. PICK r : r = [reaper[p] EXCEPT !.doomed = @ \ {b}]
    OBVIOUS
  <2>3. r \in Reaping
    BY <2>1, <2>r DEF Reaping
  <2>4. ReaperTyped'
    BY <1>0, <2>2, <2>r, <2>3, BecomesTyped
  <2>5. SharedTyped' /\ CloserTyped'
    BY <1>0, <1>2 DEF ReapKill, SharedTyped, CloserTyped
  <2> QED
    BY <1>2, <1>c, <1>e, <2>4, <2>5, TypeParts DEF ReapKill
<1>3. ASSUME NEW p \in Procs, ReadRows(p) PROVE TypeOK' /\ UsesCounted'
  <2>1. reaper[p] \in Reaping
    BY <1>0, <1>3 DEF ReadRows, ReaperTyped, KillingRow
  <2>2. PICK f : f = [k \in Keys |-> IF row[k].idle /\ ~row[k].leased THEN row[k].box ELSE NoBox]
    OBVIOUS
  <2>3. f \in [Keys -> BoxOrNone]
    BY <1>0, <2>2 DEF SharedTyped, RowType, BoxOrNone
  <2>4. ReaperTyped'
    <3>1. PICK r : r = [reaper[p] EXCEPT !.at = "rows", !.snap = f]
      OBVIOUS
    <3>2. r \in Reaping
      BY <2>1, <2>3, <3>1 DEF Reaping
    <3>3. Becomes(p, r)
      BY <1>3, <2>2, <3>1 DEF ReadRows
    <3> QED
      BY <1>0, <3>2, <3>3, BecomesTyped
  <2>5. lockOf' \in [Procs -> [Keys -> Locks \union {NoLock}]]
    BY <1>0, <1>3 DEF ReadRows, SharedTyped
  <2>6. SharedTyped' /\ CloserTyped'
    BY <1>0, <1>3, <2>5 DEF ReadRows, SharedTyped, CloserTyped
  <2> QED
    BY <1>3, <1>c, <1>e, <2>4, <2>6, TypeParts DEF ReadRows
<1>4. ASSUME NEW p \in Procs, NEW k \in Keys, CheckRow(p, k) PROVE TypeOK' /\ UsesCounted'
  <2>1. reaper[p] \in Reaping
    BY <1>0, <1>4 DEF CheckRow, ReaperTyped, KillingRow
  <2>2. PICK r : Becomes(p, r) /\ r \in {[reaper[p] EXCEPT !.snap[k] = NoBox],
                     [at |-> "rowkill", key |-> k, doomed |-> {},
                      snap |-> reaper[p].snap, cleared |-> reaper[p].cleared]}
    BY <1>4 DEF CheckRow
  <2>3. r \in Reaping \union KillingRow
    BY <2>1, <2>2 DEF Reaping, KillingRow, BoxOrNone
  <2>4. ReaperTyped'
    BY <1>0, <2>2, <2>3, BecomesTyped
  <2>5. SharedTyped' /\ CloserTyped'
    BY <1>0, <1>4 DEF CheckRow, SharedTyped, CloserTyped, shared
  <2> QED
    BY <1>4, <1>c, <1>e, <2>4, <2>5, TypeParts DEF CheckRow, shared
<1>5. ASSUME NEW p \in Procs, KillRow(p) PROVE TypeOK' /\ UsesCounted'
  <2>1. reaper[p] \in KillingRow
    BY <1>0, <1>5 DEF KillRow, ReaperTyped, Reaping
  <2>2. PICK r : Becomes(p, r) /\ \E S \in {reaper[p].cleared \union {reaper[p].key}, reaper[p].cleared} :
                   r = [at |-> "rows", doomed |-> {},
                        snap |-> [reaper[p].snap EXCEPT ![reaper[p].key] = NoBox], cleared |-> S]
    BY <1>5 DEF KillRow
  <2>3. r \in Reaping
    BY <2>1, <2>2 DEF Reaping, KillingRow, BoxOrNone
  <2>4. ReaperTyped'
    BY <1>0, <2>2, <2>3, BecomesTyped
  <2>5. SharedTyped' /\ CloserTyped'
    BY <1>0, <1>5 DEF KillRow, SharedTyped, CloserTyped
  <2> QED
    BY <1>5, <1>c, <1>e, <2>4, <2>5, TypeParts DEF KillRow
<1>6. ASSUME NEW p \in Procs, CommitRows(p) PROVE TypeOK' /\ UsesCounted'
  <2>1. Resting \in Reaping
    BY DEF Resting, Reaping, BoxOrNone
  <2>2. ReaperTyped'
    BY <1>0, <1>6, <2>1, BecomesTyped DEF CommitRows
  <2>3. row' \in [Keys -> RowType]
    BY <1>0, <1>6, NoRowTyped DEF CommitRows, SharedTyped
  <2>4. SharedTyped' /\ CloserTyped'
    BY <1>0, <1>6, <2>3 DEF CommitRows, SharedTyped, CloserTyped
  <2> QED
    BY <1>6, <1>c, <1>e, <2>2, <2>4, TypeParts DEF CommitRows
<1>7. ASSUME NEW p \in Procs, NEW k \in Keys, CloseEntry(p, k) PROVE TypeOK' /\ UsesCounted'
  <2>1. CloserTyped'
    <3>1. PICK r : r = [at |-> IF Registered(p, k) THEN "kill" ELSE "clear", key |-> k, box |-> entry[p][k].box]
      OBVIOUS
    <3>2. r \in Closing
      BY <1>0, <3>1 DEF Closing, SharedTyped, EntryType
    <3>3. closer' = [closer EXCEPT ![p] = r]
      BY <1>7, <3>1 DEF CloseEntry
    <3> QED
      BY <1>0, <3>2, <3>3 DEF CloserTyped
  <2>2. PICK f : f = [entry[p] EXCEPT ![k] = NoEntry]
    OBVIOUS
  <2>3. f \in [Keys -> EntryType] /\ \A j \in Keys : f[j] = entry[p][j] \/ f[j] = NoEntry
    BY <1>0, <2>2, NoEntryTyped DEF SharedTyped
  <2>4. entry' = [entry EXCEPT ![p] = f]
    BY <1>7, <2>2 DEF CloseEntry
  <2>5. /\ entry' \in [Procs -> [Keys -> EntryType]]
        /\ \A q \in Procs, j \in Keys : entry'[q][j] = entry[q][j] \/ entry'[q][j] = NoEntry
    BY <1>0, <2>3, <2>4 DEF SharedTyped
  <2>6. UsesCounted'
    BY <1>7, <2>5, NoEntryTyped, ReapUses DEF CloseEntry
  <2>7. SharedTyped' /\ CallsTyped' /\ ReaperTyped'
    BY <1>0, <1>7, <1>c, <2>5 DEF CloseEntry, SharedTyped, ReaperTyped
  <2> QED
    BY <2>1, <2>6, <2>7, TypeParts
<1>8. ASSUME NEW p \in Procs, CloseKill(p) PROVE TypeOK' /\ UsesCounted'
  <2>1. closer[p] \in Closing
    BY <1>0, <1>8 DEF CloseKill, CloserTyped, NotClosing
  <2>2. PICK r : r = [at |-> "clear", key |-> closer[p].key, box |-> NoBox]
    OBVIOUS
  <2>3. r \in Closing
    BY <2>1, <2>2 DEF Closing, BoxOrNone
  <2>4. CloserTyped'
    BY <1>0, <1>8, <2>2, <2>3 DEF CloseKill, CloserTyped
  <2>5. SharedTyped' /\ ReaperTyped'
    BY <1>0, <1>8 DEF CloseKill, SharedTyped, ReaperTyped
  <2> QED
    BY <1>8, <1>c, <1>e, <2>4, <2>5, TypeParts DEF CloseKill
<1>9. ASSUME NEW p \in Procs, CloseRow(p) PROVE TypeOK' /\ UsesCounted'
  <2>1. closer[p] \in Closing
    BY <1>0, <1>9 DEF CloseRow, CloserTyped, NotClosing
  <2>2. row' \in [Keys -> RowType] /\ CloserTyped'
    BY <1>0, <1>9, <2>1, NoRowTyped DEF CloseRow, SharedTyped, CloserTyped, Closing
  <2>3. SharedTyped' /\ ReaperTyped'
    BY <1>0, <1>9, <2>2 DEF CloseRow, SharedTyped, ReaperTyped
  <2> QED
    BY <1>9, <1>c, <1>e, <2>2, <2>3, TypeParts DEF CloseRow
<1>10. ASSUME NEW p \in Procs, Crash(p) PROVE TypeOK' /\ UsesCounted'
  <2>1. CallsTyped'
    BY <1>0, <1>10 DEF Crash, CallsTyped, BoxOrNone, Phases
  <2>2. /\ entry' \in [Procs -> [Keys -> EntryType]]
        /\ \A q \in Procs, k \in Keys : IF q = p THEN entry'[q][k] = NoEntry ELSE entry'[q][k] = entry[q][k]
    BY <1>0, <1>10, NoEntryTyped DEF Crash, SharedTyped
  <2>3. \A q \in Procs, k \in Keys : q # p => UsersOf(q, k) \subseteq UsersOf(q, k)'
    BY <1>10 DEF Crash, UsersOf, Using
  <2>4. UsesCounted'
    BY <1>0, <2>2, <2>3, NoEntryTyped, UsesKept DEF SharedTyped
  <2>5. Resting \in Reaping
    BY DEF Resting, Reaping, BoxOrNone
  <2>6. ReaperTyped' /\ CloserTyped'
    BY <1>0, <1>10, <2>5, BecomesTyped DEF Crash, CloserTyped
  <2>7. SharedTyped'
    BY <1>0, <1>10, <2>2 DEF Crash, SharedTyped
  <2> QED
    BY <2>1, <2>4, <2>6, <2>7, TypeParts
<1>11. ASSUME NEW b \in Boxes, Expire(b) PROVE TypeOK' /\ UsesCounted'
  <2>1. SharedTyped' /\ ReaperTyped' /\ CloserTyped'
    BY <1>0, <1>11 DEF Expire, SharedTyped, ReaperTyped, CloserTyped, background
  <2> QED
    BY <1>11, <1>c, <1>e, <2>1, TypeParts DEF Expire
<1>12. ASSUME NEW p \in Procs, NEW k \in Keys, EntryIdles(p, k) PROVE TypeOK' /\ UsesCounted'
  <2>0. PICK old : old = entry[p][k] /\ old \in EntryType
    BY <1>0 DEF SharedTyped
  <2>1. PICK e, f : e = [old EXCEPT !.idle = TRUE] /\ f = [entry[p] EXCEPT ![k] = e]
    OBVIOUS
  <2>2. e \in EntryType /\ e.uses = entry[p][k].uses /\ e.box = entry[p][k].box
    BY <2>0, <2>1 DEF EntryType
  <2>3. f \in [Keys -> EntryType] /\ f[k] = e /\ \A j \in Keys : j # k => f[j] = entry[p][j]
    BY <1>0, <2>1, <2>2 DEF SharedTyped
  <2>4. entry' = [entry EXCEPT ![p] = f]
    BY <1>0, <1>12, <2>0, <2>1 DEF EntryIdles, SharedTyped
  <2>5. /\ entry' \in [Procs -> [Keys -> EntryType]]
        /\ \A q \in Procs, j \in Keys :
             entry'[q][j].uses = entry[q][j].uses /\ entry'[q][j].box = entry[q][j].box
    BY <1>0, <2>2, <2>3, <2>4 DEF SharedTyped
  <2>6. UsesCounted'
    BY <1>12, <2>5, ReapUses DEF EntryIdles
  <2>7. SharedTyped' /\ ReaperTyped' /\ CloserTyped'
    BY <1>0, <1>12, <2>5 DEF EntryIdles, SharedTyped, ReaperTyped, CloserTyped, background
  <2> QED
    BY <1>12, <1>c, <2>6, <2>7, TypeParts DEF EntryIdles
<1>13. ASSUME NEW k \in Keys, RowIdles(k) \/ LeaseEnds(k) PROVE TypeOK' /\ UsesCounted'
  <2>1. row' \in [Keys -> RowType]
    <3>1. PICK r : r \in {[row[k] EXCEPT !.idle = TRUE], [row[k] EXCEPT !.leased = FALSE]} /\ row' = [row EXCEPT ![k] = r]
      BY <1>0, <1>13 DEF RowIdles, LeaseEnds, SharedTyped
    <3>2. r \in RowType
      BY <1>0, <3>1 DEF SharedTyped, RowType
    <3> QED
      BY <1>0, <3>1, <3>2 DEF SharedTyped
  <2>2. SharedTyped' /\ ReaperTyped' /\ CloserTyped'
    BY <1>0, <1>13, <2>1 DEF RowIdles, LeaseEnds, SharedTyped, ReaperTyped, CloserTyped, background
  <2> QED
    BY <1>13, <1>c, <1>e, <2>2, TypeParts DEF RowIdles, LeaseEnds
<1> QED
  BY <1>1, <1>2, <1>3, <1>4, <1>5, <1>6, <1>7, <1>8, <1>9, <1>10, <1>11, <1>12, <1>13 DEF Reap, TimePasses

LEMMA TypeStep == TypeOK /\ UsesCounted /\ [Next]_vars => TypeOK' /\ UsesCounted'
<1> SUFFICES ASSUME TypeOK, UsesCounted, [Next]_vars PROVE TypeOK' /\ UsesCounted'
  OBVIOUS
<1>1. CASE UNCHANGED vars
  <2>1. TypeOK'
    BY <1>1, TypeParts DEF vars, locals, SharedTyped, CallsTyped, ReaperTyped, CloserTyped
  <2>2. UsesCounted'
    BY <1>1, ReapUses DEF vars, calls
  <2> QED
    BY <2>1, <2>2
<1>2. CASE Next
  BY <1>2, CreationTyped, UseTyped, BackgroundTyped DEF Next, Continue
<1> QED
  BY <1>1, <1>2

(* Every reachable state is well typed; the uses of an entry are bounded by  *)
(* the calls that will count themselves out.                                 *)
THEOREM SandboxTyped == Spec => []TypeOK
<1>1. Spec => [](TypeOK /\ UsesCounted)
  BY InitTyped, TypeStep, PTL DEF Spec
<1> QED
  BY <1>1, PTL

-----------------------------------------------------------------------------
(* Reservations and the cap *)

(* What a step means to the reservations: a call walks on, fills the place   *)
(* it has reserved, takes or gives back a reservation, or its process dies.  *)
OthersStay(c) == \A d \in Calls : d # c => pc'[d] = pc[d]
LiveShrinks == \A p \in Procs : Live(p)' \subseteq Live(p)

Walk(c) ==
  /\ OthersStay(c) /\ pending' = pending /\ LiveShrinks
  /\ pc[c] \in Creating => pc'[c] \in Creating \union {"release"}
  /\ pc'[c] \in Creating => pc[c] \in Creating
  /\ pc[c] # "release"
Fill(c) ==
  /\ OthersStay(c) /\ pending' = pending
  /\ \A p \in Procs : Live(p)' \subseteq Live(p) \union (IF p = Home[c] THEN {KeyOf[c]} ELSE {})
  /\ pc[c] = "install" /\ pc'[c] = "release"
Take(c) ==
  /\ OthersStay(c) /\ LiveShrinks
  /\ pending' = [pending EXCEPT ![Home[c]] = @ \union {KeyOf[c]}]
  /\ Cardinality(Live(Home[c])) + Cardinality(pending[Home[c]]) < MaxSessions
  /\ pc[c] = "reserve" /\ pc'[c] = "load"
Give(c) ==
  /\ OthersStay(c) /\ LiveShrinks
  /\ pending' = [pending EXCEPT ![Home[c]] = @ \ {KeyOf[c]}]
  /\ pc[c] = "release" /\ pc'[c] \in {"ready", "begin"}
Stand == pc' = pc /\ pending' = pending /\ LiveShrinks
Die(p) ==
  /\ \A c \in Calls : pc'[c] = IF Home[c] = p THEN "ready" ELSE pc[c]
  /\ pending' = [pending EXCEPT ![p] = {}]
  /\ LiveShrinks

LEMMA SameLive == ASSUME entry' = entry PROVE LiveShrinks
  BY DEF LiveShrinks, Live, Registered

(* An entry that is dropped, or keeps its sandbox.                           *)
LEMMA LessLive ==
  ASSUME TypeOK, NEW c \in Calls, NEW e \in EntryType, SetEntry(c, e), e.box \in {NoBox, Entry(c).box}
  PROVE  LiveShrinks
<1>1. /\ entry'[Home[c]][KeyOf[c]] = e
      /\ \A p \in Procs, k \in Keys : p # Home[c] \/ k # KeyOf[c] => entry'[p][k] = entry[p][k]
  BY EntryTyped, TypeParts DEF SharedTyped
<1> SUFFICES ASSUME NEW p \in Procs, NEW k \in Keys, entry'[p][k].box # NoBox PROVE entry[p][k].box # NoBox
  BY DEF LiveShrinks, Live, Registered
<1>2. CASE p = Home[c] /\ k = KeyOf[c]
  BY <1>1, <1>2 DEF Entry
<1>3. CASE p # Home[c] \/ k # KeyOf[c]
  BY <1>1, <1>3
<1> QED
  BY <1>2, <1>3

(* A step that drops the entry of its key, or touches it, or counts.         *)
LEMMA EntryKept ==
  ASSUME TypeOK, UsesCounted, NEW c \in Calls,
         Lookup(c) \/ Recheck(c) \/ Refresh(c) \/ Begin(c) \/ End(c) \/ Drop(c) \/ Recover(c)
  PROVE  entry' = entry \/ \E e \in EntryType : SetEntry(c, e) /\ e.box \in {NoBox, Entry(c).box}
<1>0. Entry(c) \in EntryType /\ Entry(c).uses \in Nat
  <2>1. Home[c] \in Procs /\ KeyOf[c] \in Keys /\ Cardinality(Calls) \in Nat
    BY CallsAssumption, UserSets
  <2> QED
    BY <2>1, TypeParts DEF SharedTyped, Entry, EntryType, Uses
<1>1. CASE Recheck(c) \/ Drop(c) \/ Recover(c)
  BY <1>1, NoEntryTyped DEF Recheck, Drop, Recover
<1>2. CASE Lookup(c) \/ Refresh(c)
  <2>1. [Entry(c) EXCEPT !.idle = FALSE] \in EntryType /\ [Entry(c) EXCEPT !.idle = FALSE].box = Entry(c).box
    BY <1>0, NoEntryTyped, TouchedTyped DEF EntryType
  <2> QED
    BY <1>2, <2>1, NoEntryTyped DEF Lookup, Refresh
<1>3. CASE Begin(c)
  <2>1. ~Using(c)
    BY <1>3 DEF Begin, Using
  <2>2. Entry(c).uses + 1 \in Uses
    BY <2>1, OneMoreUse
  <2>3. [Entry(c) EXCEPT !.uses = @ + 1, !.idle = FALSE] \in EntryType
        /\ [Entry(c) EXCEPT !.uses = @ + 1, !.idle = FALSE].box = Entry(c).box
    BY <1>0, <2>2 DEF EntryType
  <2> QED
    BY <1>3, <2>3 DEF Begin
<1>4. CASE End(c)
  <2>1. Entry(c).uses \in Uses /\ Cardinality(Calls) \in Nat
    BY <1>0, UserSets DEF EntryType
  <2>2. Less(Entry(c).uses) \in Uses
    BY <2>1 DEF Less, Uses
  <2>3. [Entry(c) EXCEPT !.uses = Less(@), !.idle = FALSE] \in EntryType
        /\ [Entry(c) EXCEPT !.uses = Less(@), !.idle = FALSE].box = Entry(c).box
    BY <1>0, <2>2 DEF EntryType
  <2> QED
    BY <1>4, <2>3 DEF End
<1> QED
  BY <1>1, <1>2, <1>3, <1>4

LEMMA FlowOfCall ==
  ASSUME TypeOK, UsesCounted, NEW c \in Calls, Call(c) \/ EndTurn(c) \/ Acquire(c) \/ Continue(c)
  PROVE  Walk(c) \/ Fill(c) \/ Take(c) \/ Give(c)
<1>0. /\ pc \in [Calls -> Phases] /\ Home[c] \in Procs /\ KeyOf[c] \in Keys
      /\ Entry(c) \in EntryType /\ Entry(c).uses \in Nat /\ pending \in [Procs -> SUBSET Keys]
      /\ found[c] \in BoxOrNone
  <2>1. Home[c] \in Procs /\ KeyOf[c] \in Keys
    BY CallsAssumption
  <2>2. Cardinality(Calls) \in Nat
    BY UserSets
  <2> QED
    BY <2>1, <2>2, TypeParts DEF SharedTyped, CallsTyped, Entry, EntryType, Uses
<1>1. ASSUME NEW s \in Phases, Goto(c, s) PROVE OthersStay(c) /\ pc'[c] = s
  BY <1>0, <1>1, GotoTyped DEF OthersStay
<1>p. {"ready", "lookup", "getlock", "acquire", "recheck", "refresh", "reserve", "release",
       "begin", "touch", "run", "end", "fail", "untouch", "unfail", "drop", "recover",
       "load", "expire", "clear", "create", "store", "install"} \subseteq Phases
  BY DEF Phases, Creating
<1>2. CASE \/ Call(c) \/ GetLock(c) \/ Acquire(c) \/ Load(c) \/ ExpireSaved(c) \/ ClearSaved(c) \/ Create(c)
           \/ Store(c) \/ BeginTouch(c) \/ EndTouch(c) \/ RunReturns(c)
  <2>1. entry' = entry /\ pending' = pending
    BY <1>2 DEF Call, GetLock, Acquire, Load, ExpireSaved, ClearSaved, Create, Store, BeginTouch, EndTouch,
                RunReturns, shared
  <2>2. \/ pc[c] \in {"load", "expire", "clear", "create", "store"}
           /\ \E s \in Creating \union {"release"} : Goto(c, s)
        \/ pc[c] \in Phases \ (Creating \union {"release"}) /\ \E s \in Phases \ Creating : Goto(c, s)
    BY <1>2 DEF Call, GetLock, Acquire, Load, ExpireSaved, ClearSaved, Create, Store, BeginTouch, EndTouch,
                RunReturns, Finish, Phases, Creating
  <2>3. Creating \union {"release"} \subseteq Phases
    BY DEF Phases
  <2>4. Walk(c)
    BY <1>1, <2>1, <2>2, <2>3, SameLive DEF Walk, Creating
  <2> QED
    BY <2>4
<1>3. CASE EndTurn(c)
  <2>1. entry' = entry /\ pending' = pending /\ pc' = pc /\ pc[c] = "ready"
    BY <1>3 DEF EndTurn, shared
  <2> QED
    BY <2>1, SameLive DEF Walk, OthersStay, Creating
<1>4. CASE Lookup(c) \/ Recheck(c) \/ Refresh(c) \/ Begin(c) \/ End(c) \/ Drop(c) \/ Recover(c)
  <2>1. pending' = pending
    BY <1>4 DEF Lookup, Recheck, Refresh, Begin, End, Drop, Recover
  <2>2. pc[c] \in Phases \ (Creating \union {"release"}) /\ \E s \in Phases \ Creating : Goto(c, s)
    BY <1>4 DEF Lookup, Recheck, Refresh, Begin, End, Drop, Recover, Finish, Phases, Creating
  <2>3. entry' = entry \/ \E e \in EntryType : SetEntry(c, e) /\ e.box \in {NoBox, Entry(c).box}
    BY <1>4, EntryKept
  <2>4. LiveShrinks
    BY <2>3, SameLive, LessLive
  <2> QED
    BY <1>1, <2>1, <2>2, <2>4 DEF Walk
<1>5. CASE Install(c)
  <2>1. pending' = pending /\ pc[c] = "install" /\ Goto(c, "release")
    BY <1>5 DEF Install
  <2>2. PICK e : e = [box |-> found[c], uses |-> 0, idle |-> FALSE]
    OBVIOUS
  <2>3. e \in EntryType /\ SetEntry(c, e)
    <3>1. Cardinality(Calls) \in Nat
      BY UserSets
    <3> QED
      BY <1>0, <1>5, <2>2, <3>1 DEF Install, EntryType, Uses
  <2>4. \A p \in Procs, k \in Keys : p # Home[c] \/ k # KeyOf[c] => entry'[p][k] = entry[p][k]
    BY <2>3, EntryTyped, TypeParts DEF SharedTyped
  <2> QED
    BY <1>1, <1>p, <2>1, <2>4 DEF Fill, Live, Registered
<1>6. CASE Reserve(c)
  <2>1. LiveShrinks /\ pc[c] = "reserve"
    BY <1>6, SameLive DEF Reserve
  <2>2. CASE Cardinality(Live(Home[c])) + Cardinality(pending[Home[c]]) >= MaxSessions
    BY <1>1, <1>6, <1>p, <2>1, <2>2 DEF Reserve, GiveUp, Walk, Creating
  <2>3. CASE ~(Cardinality(Live(Home[c])) + Cardinality(pending[Home[c]]) >= MaxSessions)
    <3>1. Live(Home[c]) \subseteq Keys /\ pending[Home[c]] \subseteq Keys
      BY <1>0 DEF Live
    <3>2. Cardinality(Live(Home[c])) \in Nat /\ Cardinality(pending[Home[c]]) \in Nat
      BY <3>1, CallsFinite, FS_Subset, FS_CardinalityType
    <3> QED
      BY <1>1, <1>6, <1>p, <2>1, <2>3, <3>2, MaxSessionsAssumption DEF Reserve, Take
  <2> QED
    BY <2>2, <2>3
<1>7. CASE Release(c)
  <2>1. LiveShrinks /\ pc[c] = "release"
    BY <1>7, SameLive DEF Release
  <2>2. Goto(c, "ready") \/ Goto(c, "begin")
    BY <1>7 DEF Release, GiveUp
  <2> QED
    BY <1>1, <1>7, <1>p, <2>1, <2>2 DEF Release, Give
<1> QED
  BY <1>2, <1>3, <1>4, <1>5, <1>6, <1>7 DEF Continue

LEMMA Flow ==
  ASSUME TypeOK, UsesCounted, [Next]_vars
  PROVE  \/ \E c \in Calls : Walk(c) \/ Fill(c) \/ Take(c) \/ Give(c)
         \/ Stand
         \/ \E p \in Procs : Die(p)
<1>0. entry \in [Procs -> [Keys -> EntryType]]
  BY TypeParts DEF SharedTyped
<1>1. ASSUME NEW p \in Procs, Crash(p) PROVE Die(p)
  <2>1. LiveShrinks
    BY <1>0, <1>1 DEF Crash, LiveShrinks, Live, Registered, NoEntry
  <2> QED
    BY <1>1, <2>1 DEF Crash, Die
<1>2. ASSUME NEW p \in Procs,
             \/ ReapKill(p) \/ ReadRows(p) \/ (\E k \in Keys : CheckRow(p, k)) \/ KillRow(p) \/ CommitRows(p)
             \/ CloseKill(p) \/ CloseRow(p)
      PROVE  Stand
  <2>1. UNCHANGED <<entry, pending, pc>>
    BY <1>2 DEF ReapKill, ReadRows, CheckRow, KillRow, CommitRows, CloseKill, CloseRow, calls, shared
  <2> QED
    BY <2>1, SameLive DEF Stand
<1>3. ASSUME NEW p \in Procs, ReapEntries(p) PROVE Stand
  <2>1. \A q \in Procs, k \in Keys : entry'[q][k] \in {entry[q][k], NoEntry}
    BY <1>0, <1>3 DEF ReapEntries
  <2> QED
    BY <1>3, <2>1 DEF ReapEntries, Stand, LiveShrinks, Live, Registered, NoEntry, calls
<1>4. ASSUME NEW p \in Procs, NEW k \in Keys, CloseEntry(p, k) \/ EntryIdles(p, k) PROVE Stand
  <2>0. PICK old : old = entry[p][k] /\ old \in EntryType
    BY <1>0
  <2>1. PICK e : e \in {NoEntry, [old EXCEPT !.idle = TRUE]} /\ entry' = [entry EXCEPT ![p][k] = e]
    BY <1>0, <1>4, <2>0 DEF CloseEntry, EntryIdles
  <2>2. e.box \in {NoBox, old.box}
    BY <2>0, <2>1 DEF NoEntry, EntryType
  <2>3. \A q \in Procs, j \in Keys : entry'[q][j] = IF q = p /\ j = k THEN e ELSE entry[q][j]
    BY <1>0, <2>1
  <2>4. LiveShrinks
    BY <2>0, <2>2, <2>3 DEF LiveShrinks, Live, Registered
  <2> QED
    BY <1>4, <2>4 DEF CloseEntry, EntryIdles, Stand, calls
<1>5. ASSUME NEW k \in Keys, RowIdles(k) \/ LeaseEnds(k) PROVE Stand
  BY <1>5, SameLive DEF RowIdles, LeaseEnds, Stand, calls
<1>6. ASSUME NEW b \in Boxes, Expire(b) PROVE Stand
  BY <1>6, SameLive DEF Expire, Stand, calls
<1>7. CASE UNCHANGED vars
  BY <1>7, SameLive DEF vars, Stand
<1> QED
  BY <1>1, <1>2, <1>3, <1>4, <1>5, <1>6, <1>7, FlowOfCall DEF Next, Reap, TimePasses

LEMMA OwnerStep == TypeOK /\ UsesCounted /\ ReservationHasOwner /\ [Next]_vars => ReservationHasOwner'
<1> SUFFICES ASSUME TypeOK, UsesCounted, ReservationHasOwner, [Next]_vars PROVE ReservationHasOwner'
  OBVIOUS
<1>t. \A p \in Procs : pending'[p] \subseteq Keys
  BY TypeStep, TypeParts DEF SharedTyped
<1> SUFFICES ASSUME NEW p \in Procs, NEW k \in Keys, k \in pending'[p]
             PROVE  \E c \in Calls : Home[c] = p /\ KeyOf[c] = k /\ pc'[c] \in Creating \union {"release"}
  BY <1>t DEF ReservationHasOwner
<1>0. pending \in [Procs -> SUBSET Keys]
  BY DEF TypeOK
<1>1. k \in pending[p] => \E c \in Calls : Home[c] = p /\ KeyOf[c] = k /\ pc[c] \in Creating \union {"release"}
  BY DEF ReservationHasOwner
<1>2. ASSUME NEW c \in Calls, Walk(c) \/ Fill(c)
      PROVE  \E d \in Calls : Home[d] = p /\ KeyOf[d] = k /\ pc'[d] \in Creating \union {"release"}
  <2>1. pc[c] \in Creating \union {"release"} => pc'[c] \in Creating \union {"release"}
    BY <1>2 DEF Walk, Fill
  <2> QED
    BY <1>1, <1>2, <2>1 DEF Walk, Fill, OthersStay
<1>3. ASSUME NEW c \in Calls, Take(c)
      PROVE  \E d \in Calls : Home[d] = p /\ KeyOf[d] = k /\ pc'[d] \in Creating \union {"release"}
  <2>1. k \in pending[p] \/ (p = Home[c] /\ k = KeyOf[c])
    BY <1>0, <1>3 DEF Take
  <2> QED
    BY <1>1, <1>3, <2>1 DEF Take, OthersStay, Creating
<1>4. ASSUME NEW c \in Calls, Give(c)
      PROVE  \E d \in Calls : Home[d] = p /\ KeyOf[d] = k /\ pc'[d] \in Creating \union {"release"}
  <2>1. k \in pending[p] /\ ~(p = Home[c] /\ k = KeyOf[c])
    BY <1>0, <1>4 DEF Give
  <2> QED
    BY <1>1, <1>4, <2>1 DEF Give, OthersStay
<1>5. ASSUME NEW q \in Procs, Die(q)
      PROVE  \E d \in Calls : Home[d] = p /\ KeyOf[d] = k /\ pc'[d] \in Creating \union {"release"}
  <2>1. k \in pending[p] /\ p # q
    BY <1>0, <1>5 DEF Die
  <2> QED
    BY <1>1, <1>5, <2>1 DEF Die
<1> QED
  BY <1>1, <1>2, <1>3, <1>4, <1>5, Flow DEF Stand

(* A reservation never outlives the creation it was made for, whatever fails *)
(* or dies, and whether or not several calls share a key.                    *)
THEOREM ReservationsOwned == Spec => []ReservationHasOwner
<1>1. Init => ReservationHasOwner
  BY DEF Init, ReservationHasOwner
<1>2. Spec => [](TypeOK /\ UsesCounted /\ ReservationHasOwner)
  BY <1>1, InitTyped, TypeStep, OwnerStep, PTL DEF Spec
<1> QED
  BY <1>2, PTL

OwnKeys == \A c, d \in Calls : Home[c] = Home[d] /\ KeyOf[c] = KeyOf[d] => c = d

Working(p) == {c \in Calls : Home[c] = p /\ pc[c] \in Creating}

(* A call that creates holds the reservation of its key.                     *)
Reserved == \A c \in Calls : pc[c] \in Creating => KeyOf[c] \in pending[Home[c]]

LEMMA ReservedStep ==
  ASSUME OwnKeys, TypeOK, UsesCounted, Reserved, [Next]_vars
  PROVE  Reserved'
<1> SUFFICES ASSUME NEW d \in Calls, pc'[d] \in Creating PROVE KeyOf[d] \in pending'[Home[d]]
  BY DEF Reserved
<1>0. pending \in [Procs -> SUBSET Keys] /\ Home[d] \in Procs
  BY CallsAssumption DEF TypeOK
<1>1. pc[d] \in Creating => KeyOf[d] \in pending[Home[d]]
  BY DEF Reserved
<1>n. "ready" \notin Creating /\ "begin" \notin Creating /\ "release" \notin Creating
  BY DEF Creating
<1>2. ASSUME NEW c \in Calls, Walk(c) \/ Fill(c) PROVE KeyOf[d] \in pending'[Home[d]]
  BY <1>1, <1>2, <1>n DEF Walk, Fill, OthersStay
<1>3. ASSUME NEW c \in Calls, Take(c) PROVE KeyOf[d] \in pending'[Home[d]]
  BY <1>0, <1>1, <1>3 DEF Take, OthersStay
<1>4. ASSUME NEW c \in Calls, Give(c) PROVE KeyOf[d] \in pending'[Home[d]]
  <2>1. d # c /\ pc'[d] = pc[d]
    BY <1>4, <1>n DEF Give, OthersStay
  <2>2. Home[d] # Home[c] \/ KeyOf[d] # KeyOf[c]
    BY <2>1 DEF OwnKeys
  <2> QED
    BY <1>0, <1>1, <1>4, <2>1, <2>2 DEF Give
<1>5. ASSUME NEW q \in Procs, Die(q) PROVE KeyOf[d] \in pending'[Home[d]]
  <2>1. Home[d] # q /\ pc'[d] = pc[d]
    BY <1>5, <1>n DEF Die
  <2> QED
    BY <1>0, <1>1, <1>5, <2>1 DEF Die
<1> QED
  BY <1>1, <1>2, <1>3, <1>4, <1>5, Flow DEF Stand

(* The calls that create hold different reservations.                        *)
LEMMA WorkingReserved ==
  ASSUME OwnKeys, TypeOK, Reserved, NEW p \in Procs
  PROVE  Cardinality(Working(p)) <= Cardinality(pending[p])
<1> DEFINE f == [c \in Working(p) |-> KeyOf[c]]
<1>1. IsFiniteSet(pending[p])
  BY CallsFinite, FS_Subset DEF TypeOK
<1>2. f \in [Working(p) -> pending[p]]
  BY DEF Reserved, Working
<1>3. \A c, d \in Working(p) : f[c] = f[d] => c = d
  BY DEF OwnKeys, Working
<1>4. f \in Injection(Working(p), pending[p])
  BY <1>2, <1>3 DEF Injection, IsInjective
<1> QED
  BY <1>1, <1>4, FS_Injection

LEMMA OneMore ==
  ASSUME NEW S, IsFiniteSet(S), NEW x
  PROVE  IsFiniteSet(S \union {x}) /\ Cardinality(S \union {x}) <= Cardinality(S) + 1
<1>1. Cardinality(S) \in Nat
  BY FS_CardinalityType
<1> QED
  BY <1>1, FS_AddElement

LEMMA CapStep ==
  ASSUME OwnKeys, TypeOK, UsesCounted, Reserved, CapRespected, [Next]_vars
  PROVE  CapRespected'
<1> SUFFICES ASSUME NEW p \in Procs
             PROVE  Cardinality(Live(p)') + Cardinality(Working(p)') <= MaxSessions
  BY DEF CapRespected, Working
<1>0. Cardinality(Live(p)) + Cardinality(Working(p)) <= MaxSessions
  BY DEF CapRespected, Working
<1>1. /\ Live(p) \subseteq Keys /\ Live(p)' \subseteq Keys
      /\ Working(p) \subseteq Calls /\ Working(p)' \subseteq Calls
      /\ IsFiniteSet(Live(p)) /\ Cardinality(Live(p)) \in Nat /\ Cardinality(Live(p)') \in Nat
      /\ Cardinality(Working(p)) \in Nat /\ Cardinality(Working(p)') \in Nat
  <2>1. /\ Live(p) \subseteq Keys /\ Live(p)' \subseteq Keys
        /\ Working(p) \subseteq Calls /\ Working(p)' \subseteq Calls
    BY DEF Live, Working
  <2> QED
    BY <2>1, CallsFinite, UserSets, FS_Subset, FS_CardinalityType
<1>2. Live(p)' \subseteq Live(p) => Cardinality(Live(p)') <= Cardinality(Live(p))
  BY <1>1, FS_Subset
<1>3. Working(p)' \subseteq Working(p) => Cardinality(Working(p)') <= Cardinality(Working(p))
  BY <1>1, UserSets
<1>n. "ready" \notin Creating /\ "begin" \notin Creating /\ "release" \notin Creating
  BY DEF Creating
<1>4. CASE Live(p)' \subseteq Live(p) /\ Working(p)' \subseteq Working(p)
  BY <1>0, <1>1, <1>2, <1>3, <1>4, MaxSessionsAssumption
<1>5. ASSUME NEW c \in Calls, Walk(c) \/ Give(c) PROVE Live(p)' \subseteq Live(p) /\ Working(p)' \subseteq Working(p)
  BY <1>5, <1>n DEF Walk, Give, OthersStay, Working, LiveShrinks
<1>6. ASSUME NEW q \in Procs, Die(q) PROVE Live(p)' \subseteq Live(p) /\ Working(p)' \subseteq Working(p)
  BY <1>6, <1>n DEF Die, Working, LiveShrinks
<1>7. ASSUME NEW c \in Calls, Fill(c) PROVE Cardinality(Live(p)') + Cardinality(Working(p)') <= MaxSessions
  <2>1. Working(p)' \subseteq Working(p) \ {c}
    BY <1>7, <1>n DEF Fill, OthersStay, Working
  <2>2. CASE p # Home[c]
    <3>1. Live(p)' \subseteq Live(p)
      BY <1>7, <2>2 DEF Fill
    <3> QED
      BY <1>4, <2>1, <3>1
  <2>3. CASE p = Home[c]
    <3>1. Live(p)' \subseteq Live(p) \union {KeyOf[c]}
      BY <1>7, <2>3 DEF Fill
    <3>2. IsFiniteSet(Live(p) \union {KeyOf[c]}) /\ Cardinality(Live(p) \union {KeyOf[c]}) <= Cardinality(Live(p)) + 1
      BY <1>1, OneMore
    <3>3. Cardinality(Live(p)') <= Cardinality(Live(p) \union {KeyOf[c]})
      BY <3>1, <3>2, FS_Subset
    <3>4. c \in Working(p)
      BY <1>7, <2>3 DEF Fill, Working, Creating
    <3>5. Cardinality(Working(p)') <= Cardinality(Working(p) \ {c}) /\ Cardinality(Working(p) \ {c}) = Cardinality(Working(p)) - 1
      <4>1. Working(p) \ {c} \subseteq Calls
        BY <1>1
      <4> QED
        BY <1>1, <2>1, <3>4, <4>1, UserSets
    <3>6. Cardinality(Live(p) \union {KeyOf[c]}) \in Nat
      BY <3>2, FS_CardinalityType
    <3> QED
      BY <1>0, <1>1, <3>2, <3>3, <3>5, <3>6, MaxSessionsAssumption
  <2> QED
    BY <2>2, <2>3
<1>8. ASSUME NEW c \in Calls, Take(c) PROVE Cardinality(Live(p)') + Cardinality(Working(p)') <= MaxSessions
  <2>1. Live(p)' \subseteq Live(p)
    BY <1>8 DEF Take, LiveShrinks
  <2>2. CASE p # Home[c]
    <3>1. Working(p)' \subseteq Working(p)
      BY <1>8, <2>2 DEF Take, OthersStay, Working
    <3> QED
      BY <1>4, <2>1, <3>1
  <2>3. CASE p = Home[c]
    <3>1. Working(p)' \subseteq Working(p) \union {c} /\ c \notin Working(p)
      BY <1>8 DEF Take, OthersStay, Working, Creating
    <3>2. Working(p) \union {c} \subseteq Calls
      BY <1>1
    <3>3. /\ Cardinality(Working(p) \union {c}) = Cardinality(Working(p)) + 1
          /\ Cardinality(Working(p)') <= Cardinality(Working(p) \union {c})
      BY <1>1, <3>1, <3>2, UserSets
    <3>4. Cardinality(Working(p)) <= Cardinality(pending[p])
      BY WorkingReserved
    <3>5. Cardinality(Live(p)) + Cardinality(pending[p]) < MaxSessions
      BY <1>8, <2>3 DEF Take
    <3>6. Cardinality(pending[p]) \in Nat
      BY CallsFinite, FS_Subset, FS_CardinalityType DEF TypeOK
    <3>7. Cardinality(Live(p)') <= Cardinality(Live(p))
      BY <1>2, <2>1
    <3> QED
      BY <1>1, <3>3, <3>4, <3>5, <3>6, <3>7, MaxSessionsAssumption
  <2> QED
    BY <2>2, <2>3
<1>9. CASE Stand
  BY <1>4, <1>9 DEF Stand, LiveShrinks, Working
<1> QED
  BY <1>4, <1>5, <1>6, <1>7, <1>8, <1>9, Flow

(* When the calls of a process have different keys, its registered sandboxes *)
(* and those in creation stay within the cap, however the calls interleave   *)
(* with each other, the reaper, failures and crashes.                        *)
THEOREM CapHolds ==
  ASSUME OwnKeys
  PROVE  Spec => []CapRespected
<1>1. Init => Reserved /\ CapRespected
  <2> SUFFICES ASSUME Init PROVE Reserved /\ CapRespected
    OBVIOUS
  <2>1. \A c \in Calls : pc[c] \notin Creating
    BY DEF Init, Creating
  <2>2. ASSUME NEW p \in Procs
        PROVE  Cardinality(Live(p)) + Cardinality({c \in Calls : Home[c] = p /\ pc[c] \in Creating}) <= MaxSessions
    <3>1. Live(p) = {} /\ {c \in Calls : Home[c] = p /\ pc[c] \in Creating} = {}
      BY <2>1, <2>2 DEF Init, Live, Registered, NoEntry
    <3> QED
      BY <3>1, FS_EmptySet, MaxSessionsAssumption
  <2> QED
    BY <2>1, <2>2 DEF Reserved, CapRespected
<1>2. TypeOK /\ UsesCounted /\ Reserved /\ CapRespected /\ [Next]_vars
        => TypeOK' /\ UsesCounted' /\ Reserved' /\ CapRespected'
  BY TypeStep, ReservedStep, CapStep
<1>3. Spec => [](TypeOK /\ UsesCounted /\ Reserved /\ CapRespected)
  BY <1>1, <1>2, InitTyped, PTL DEF Spec
<1> QED
  BY <1>3, PTL

-----------------------------------------------------------------------------
(* Leased sandboxes *)

AllKeysDiffer == \A c, d \in Calls : KeyOf[c] = KeyOf[d] => c = d

(* What refers to a sandbox on behalf of a key.                              *)
Refers(k, b) ==
  \/ row[k].box = b
  \/ \E p \in Procs : entry[p][k].box = b
  \/ \E c \in Calls : KeyOf[c] = k /\ (handle[c] = b \/ found[c] = b)

(* No sandbox serves two keys.                                               *)
Owned == \A j, k \in Keys, b \in Boxes : Refers(j, b) /\ Refers(k, b) => j = k

(* The sandboxes a call can hand on: those its own key already refers to.    *)
Mine(c) == {NoBox, handle[c], found[c], Entry(c).box, row[KeyOf[c]].box}

RowsMove(c) ==
  \A k \in Keys : row'[k].box # row[k].box => k = KeyOf[c] /\ row'[k].box \in Mine(c)
EntriesMove(c) ==
  \A p \in Procs, k \in Keys :
    entry'[p][k].box # entry[p][k].box
      => p = Home[c] /\ k = KeyOf[c] /\ entry'[p][k].box \in Mine(c)
HandlesMove(c) ==
  \A d \in Calls : handle'[d] # handle[d] => d = c /\ handle'[d] \in Mine(c)
FoundMoves(c, new) ==
  \A d \in Calls : found'[d] # found[d] => d = c /\ found'[d] \in Mine(c) \union new
Moves(c, new) == RowsMove(c) /\ EntriesMove(c) /\ HandlesMove(c) /\ FoundMoves(c, new)

LEMMA PersistMoves ==
  ASSUME TypeOK, NEW c \in Calls, NEW b \in Mine(c), NEW l \in BOOLEAN, Persist(KeyOf[c], b, l)
  PROVE  RowsMove(c)
<1>1. PICK r : r = [box |-> b, idle |-> FALSE, leased |-> l]
  OBVIOUS
<1>2. r.box = b /\ row' = [row EXCEPT ![KeyOf[c]] = r]
  BY <1>1 DEF Persist
<1>3. row \in [Keys -> RowType]
  BY TypeParts DEF SharedTyped
<1>4. \A k \in Keys : row'[k] = IF k = KeyOf[c] THEN r ELSE row[k]
  BY <1>2, <1>3
<1> QED
  BY <1>2, <1>4 DEF RowsMove

LEMMA EntryMoves ==
  ASSUME TypeOK, NEW c \in Calls, NEW e \in EntryType, SetEntry(c, e), e.box \in Mine(c)
  PROVE  EntriesMove(c)
<1>1. /\ entry'[Home[c]][KeyOf[c]] = e
      /\ \A p \in Procs, k \in Keys : p # Home[c] \/ k # KeyOf[c] => entry'[p][k] = entry[p][k]
  BY EntryTyped, TypeParts DEF SharedTyped
<1> SUFFICES ASSUME NEW p \in Procs, NEW k \in Keys, entry'[p][k].box # entry[p][k].box
             PROVE  p = Home[c] /\ k = KeyOf[c] /\ entry'[p][k].box \in Mine(c)
  BY DEF EntriesMove
<1>2. p = Home[c] /\ k = KeyOf[c]
  BY <1>1
<1> QED
  BY <1>1, <1>2

LEMMA CallMoves ==
  ASSUME TypeOK, UsesCounted, NEW c \in Calls, Call(c) \/ EndTurn(c) \/ Acquire(c) \/ Continue(c)
  PROVE  Moves(c, {}) \/ \E b \in Boxes : Unused(b) /\ Moves(c, {b})
<1>0. /\ row \in [Keys -> RowType] /\ handle \in [Calls -> BoxOrNone] /\ found \in [Calls -> BoxOrNone]
      /\ KeyOf[c] \in Keys /\ Home[c] \in Procs
  BY TypeParts, CallsAssumption DEF SharedTyped, CallsTyped
<1>m. /\ NoBox \in Mine(c) /\ handle[c] \in Mine(c) /\ found[c] \in Mine(c)
      /\ Entry(c).box \in Mine(c) /\ row[KeyOf[c]].box \in Mine(c)
  BY DEF Mine
(* the entries *)
<1>1. EntriesMove(c)
  <2>1. CASE \/ Call(c) \/ EndTurn(c) \/ GetLock(c) \/ Acquire(c) \/ Reserve(c) \/ Load(c) \/ ExpireSaved(c)
             \/ ClearSaved(c) \/ Create(c) \/ Store(c) \/ Release(c) \/ BeginTouch(c) \/ EndTouch(c)
             \/ RunReturns(c)
    <3>1. entry' = entry
      BY <2>1 DEF Call, EndTurn, GetLock, Acquire, Reserve, Load, ExpireSaved, ClearSaved, Create, Store,
                  Release, BeginTouch, EndTouch, RunReturns, shared
    <3> QED
      BY <3>1 DEF EntriesMove
  <2>2. CASE Lookup(c) \/ Recheck(c) \/ Refresh(c) \/ Begin(c) \/ End(c) \/ Drop(c) \/ Recover(c)
    <3>1. CASE entry' = entry
      BY <3>1 DEF EntriesMove
    <3>2. CASE entry' # entry
      BY <1>m, <2>2, <3>2, EntryKept, EntryMoves
    <3> QED
      BY <3>1, <3>2
  <2>3. CASE Install(c)
    <3>1. PICK e : e = [box |-> found[c], uses |-> 0, idle |-> FALSE]
      OBVIOUS
    <3>2. e \in EntryType /\ e.box = found[c]
      <4>1. Cardinality(Calls) \in Nat
        BY UserSets
      <4> QED
        BY <1>0, <3>1, <4>1 DEF EntryType, Uses
    <3> QED
      BY <1>m, <2>3, <3>1, <3>2, EntryMoves DEF Install
  <2> QED
    BY <2>1, <2>2, <2>3 DEF Continue
(* the rows *)
<1>2. RowsMove(c)
  <2>1. CASE row' = row
    BY <2>1 DEF RowsMove
  <2>2. CASE Persist(KeyOf[c], found[c], FALSE) \/ Persist(KeyOf[c], found[c], TRUE)
             \/ Persist(KeyOf[c], Entry(c).box, FALSE)
    BY <1>m, <2>2, PersistMoves
  <2>3. CASE ClearSaved(c)
    BY <1>0, <1>m, <2>3 DEF ClearSaved, RowsMove, NoRow
  <2> QED
    BY <2>1, <2>2, <2>3 DEF Continue, Call, EndTurn, Lookup, GetLock, Acquire, Recheck, Refresh, Reserve, Load,
         ExpireSaved, ClearSaved, Create, Store, Install, Release, Begin, BeginTouch, RunReturns, End, EndTouch,
         Drop, Recover, shared
(* the handles *)
<1>3. HandlesMove(c)
  <2>1. handle' = handle \/ \E b \in Mine(c) : handle' = [handle EXCEPT ![c] = b]
    BY <1>m DEF Continue, Call, EndTurn, Lookup, GetLock, Acquire, Recheck, Refresh, Reserve, Load,
         ExpireSaved, ClearSaved, Create, Store, Install, Release, Begin, BeginTouch, RunReturns, End, EndTouch,
         Drop, Recover, locals
  <2> QED
    BY <1>0, <2>1 DEF HandlesMove
(* what is handed on *)
<1>4. CASE \E b \in Boxes : Unused(b) /\ found' = [found EXCEPT ![c] = b]
  <2>1. PICK b \in Boxes : Unused(b) /\ found' = [found EXCEPT ![c] = b]
    BY <1>4
  <2>2. FoundMoves(c, {b})
    BY <1>0, <2>1 DEF FoundMoves
  <2> QED
    BY <1>1, <1>2, <1>3, <2>1, <2>2 DEF Moves
<1>5. CASE found' = found \/ \E b \in Mine(c) : found' = [found EXCEPT ![c] = b]
  <2>1. FoundMoves(c, {})
    BY <1>0, <1>5 DEF FoundMoves
  <2> QED
    BY <1>1, <1>2, <1>3, <2>1 DEF Moves
<1>6. \/ \E b \in Boxes : Unused(b) /\ found' = [found EXCEPT ![c] = b]
      \/ found' = found
      \/ \E b \in Mine(c) : found' = [found EXCEPT ![c] = b]
  <2>1. CASE Load(c)
    <3>1. (IF retried[c] THEN NoRow ELSE row[KeyOf[c]]).box \in Mine(c)
      BY <1>m DEF NoRow
    <3> QED
      BY <2>1, <3>1 DEF Load
  <2>2. CASE ~Load(c)
    BY <1>m, <2>2 DEF Continue, Call, EndTurn, Lookup, GetLock, Acquire, Recheck, Refresh, Reserve,
         ExpireSaved, ClearSaved, Create, Store, Install, Release, GiveUp, Begin, BeginTouch, RunReturns, End,
         EndTouch, Drop, Recover, locals
  <2> QED
    BY <2>1, <2>2
<1> QED
  BY <1>4, <1>5, <1>6

(* What the reaper, a reset, a crash and time do to the references.          *)
Loses ==
  /\ \A k \in Keys : row'[k].box \in {row[k].box, NoBox}
  /\ \A p \in Procs, k \in Keys : entry'[p][k].box \in {entry[p][k].box, NoBox}
  /\ \A c \in Calls : handle'[c] \in {handle[c], NoBox} /\ found'[c] \in {found[c], NoBox}

(* An entry of the background's: dropped, or with the uses it had.           *)
EntriesRest ==
  \A p \in Procs, k \in Keys :
    \/ entry'[p][k].box = NoBox
    \/ entry'[p][k].box = entry[p][k].box /\ entry'[p][k].uses = entry[p][k].uses

LEMMA BackgroundLoses ==
  ASSUME TypeOK, [Next]_vars, ~\E c \in Calls : Call(c) \/ EndTurn(c) \/ Acquire(c) \/ Continue(c)
  PROVE  Loses /\ EntriesRest
<1>0. row \in [Keys -> RowType] /\ entry \in [Procs -> [Keys -> EntryType]]
  BY TypeParts DEF SharedTyped
<1>r. row' = row => \A k \in Keys : row'[k].box \in {row[k].box, NoBox}
  OBVIOUS
<1>e. entry' = entry => EntriesRest /\ \A p \in Procs, k \in Keys : entry'[p][k].box \in {entry[p][k].box, NoBox}
  BY DEF EntriesRest
<1>c. UNCHANGED <<handle, found>>
        => \A c \in Calls : handle'[c] \in {handle[c], NoBox} /\ found'[c] \in {found[c], NoBox}
  OBVIOUS
<1>1. ASSUME NEW p \in Procs, Crash(p) PROVE Loses /\ EntriesRest
  <2>1. \A q \in Procs, k \in Keys : entry'[q][k] \in {entry[q][k], NoEntry}
    BY <1>0, <1>1 DEF Crash
  <2> QED
    BY <1>1, <1>r, <2>1 DEF Crash, Loses, EntriesRest, NoEntry
<1>2. ASSUME NEW p \in Procs, ReapEntries(p) PROVE Loses /\ EntriesRest
  <2>1. \A q \in Procs, k \in Keys : entry'[q][k] \in {entry[q][k], NoEntry}
    BY <1>0, <1>2 DEF ReapEntries
  <2> QED
    BY <1>2, <1>r, <1>c, <2>1 DEF ReapEntries, Loses, EntriesRest, NoEntry, calls, locals
<1>3. ASSUME NEW p \in Procs, NEW k \in Keys, CloseEntry(p, k) \/ EntryIdles(p, k) PROVE Loses /\ EntriesRest
  <2>0. PICK old : old = entry[p][k] /\ old \in EntryType
    BY <1>0
  <2>1. PICK e : e \in {NoEntry, [old EXCEPT !.idle = TRUE]} /\ entry' = [entry EXCEPT ![p][k] = e]
    BY <1>0, <1>3, <2>0 DEF CloseEntry, EntryIdles
  <2>2. e.box = NoBox \/ (e.box = old.box /\ e.uses = old.uses)
    BY <2>0, <2>1 DEF NoEntry, EntryType
  <2>3. \A q \in Procs, j \in Keys : entry'[q][j] = IF q = p /\ j = k THEN e ELSE entry[q][j]
    BY <1>0, <2>1
  <2>4. EntriesRest
    BY <2>0, <2>2, <2>3 DEF EntriesRest
  <2> QED
    BY <1>3, <1>r, <1>c, <2>4 DEF EntriesRest, CloseEntry, EntryIdles, Loses, calls, locals
<1>4. ASSUME NEW p \in Procs, CommitRows(p) \/ CloseRow(p) PROVE Loses /\ EntriesRest
  <2>1. \A k \in Keys : row'[k] \in {row[k], NoRow}
    BY <1>0, <1>4 DEF CommitRows, CloseRow
  <2> QED
    BY <1>4, <1>e, <1>c, <2>1 DEF CommitRows, CloseRow, Loses, NoRow, calls, locals
<1>5. ASSUME NEW k \in Keys, RowIdles(k) \/ LeaseEnds(k) PROVE Loses /\ EntriesRest
  <2>0. PICK old : old = row[k] /\ old \in RowType
    BY <1>0
  <2>1. PICK r : r \in {[old EXCEPT !.idle = TRUE], [old EXCEPT !.leased = FALSE]} /\ row' = [row EXCEPT ![k] = r]
    BY <1>0, <1>5, <2>0 DEF RowIdles, LeaseEnds
  <2>2. r.box = old.box
    BY <2>0, <2>1 DEF RowType
  <2>3. \A j \in Keys : row'[j].box = row[j].box
    BY <1>0, <2>0, <2>1, <2>2
  <2> QED
    BY <1>5, <1>e, <1>c, <2>3 DEF RowIdles, LeaseEnds, Loses, calls, locals
<1>6. ASSUME NEW p \in Procs,
             ReapKill(p) \/ ReadRows(p) \/ (\E k \in Keys : CheckRow(p, k)) \/ KillRow(p) \/ CloseKill(p)
      PROVE  Loses /\ EntriesRest
  <2>1. UNCHANGED <<row, entry, handle, found>>
    BY <1>6 DEF ReapKill, ReadRows, CheckRow, KillRow, CloseKill, calls, shared, locals
  <2> QED
    BY <1>r, <1>e, <1>c, <2>1 DEF Loses
<1>7. ASSUME NEW b \in Boxes, Expire(b) PROVE Loses /\ EntriesRest
  BY <1>7, <1>r, <1>e, <1>c DEF Expire, Loses, calls, locals
<1>8. CASE UNCHANGED vars
  BY <1>8, <1>r, <1>e, <1>c DEF vars, locals, Loses
<1> QED
  BY <1>1, <1>2, <1>3, <1>4, <1>5, <1>6, <1>7, <1>8 DEF Next, Reap, TimePasses

(* An entry is one of a call's key.                                          *)
Peopled ==
  \A p \in Procs, k \in Keys : Registered(p, k) => \E c \in Calls : Home[c] = p /\ KeyOf[c] = k

LEMMA PeopledStep ==
  ASSUME TypeOK, UsesCounted, Peopled, [Next]_vars
  PROVE  Peopled'
<1>1. ASSUME NEW c \in Calls, Call(c) \/ EndTurn(c) \/ Acquire(c) \/ Continue(c) PROVE Peopled'
  <2>1. EntriesMove(c)
    BY <1>1, CallMoves DEF Moves
  <2> QED
    BY <2>1 DEF Peopled, Registered, EntriesMove
<1>2. CASE ~\E c \in Calls : Call(c) \/ EndTurn(c) \/ Acquire(c) \/ Continue(c)
  <2>1. Loses
    BY <1>2, BackgroundLoses
  <2> QED
    BY <2>1 DEF Peopled, Registered, Loses
<1> QED
  BY <1>1, <1>2

(* A step of a call refers to what its key referred to, or to an unused box. *)
LEMMA MovesRefer ==
  ASSUME NEW c \in Calls, NEW new, Moves(c, new), NEW k \in Keys, NEW b \in Boxes, Refers(k, b)'
  PROVE  Refers(k, b) \/ (k = KeyOf[c] /\ b \in new)
<1>0. b # NoBox /\ KeyOf[c] \in Keys /\ Home[c] \in Procs
  BY NoneAssumption, CallsAssumption
<1>m. b \in Mine(c) => Refers(KeyOf[c], b)
  BY <1>0 DEF Mine, Refers, Entry
<1>1. CASE row'[k].box = b
  BY <1>1, <1>m DEF Moves, RowsMove, Refers
<1>2. ASSUME NEW p \in Procs, entry'[p][k].box = b PROVE Refers(k, b)
  BY <1>2, <1>m DEF Moves, EntriesMove, Refers
<1>3. ASSUME NEW d \in Calls, KeyOf[d] = k, handle'[d] = b PROVE Refers(k, b)
  BY <1>3, <1>m DEF Moves, HandlesMove, Refers
<1>4. ASSUME NEW d \in Calls, KeyOf[d] = k, found'[d] = b PROVE Refers(k, b) \/ (k = KeyOf[c] /\ b \in new)
  BY <1>4, <1>m DEF Moves, FoundMoves, Refers
<1> QED
  BY <1>1, <1>2, <1>3, <1>4 DEF Refers

LEMMA LosesRefer ==
  ASSUME Loses, NEW k \in Keys, NEW b \in Boxes, Refers(k, b)'
  PROVE  Refers(k, b)
  BY NoneAssumption DEF Loses, Refers

LEMMA OwnedStep ==
  ASSUME TypeOK, UsesCounted, Owned, [Next]_vars
  PROVE  Owned'
<1> SUFFICES ASSUME NEW j \in Keys, NEW k \in Keys, NEW b \in Boxes, Refers(j, b)', Refers(k, b)' PROVE j = k
  BY DEF Owned
<1>0. Refers(j, b) /\ Refers(k, b) => j = k
  BY DEF Owned
<1>1. CASE ~\E c \in Calls : Call(c) \/ EndTurn(c) \/ Acquire(c) \/ Continue(c)
  BY <1>0, <1>1, BackgroundLoses, LosesRefer
<1>2. ASSUME NEW c \in Calls, Moves(c, {}) PROVE j = k
  BY <1>0, <1>2, MovesRefer
<1>3. ASSUME NEW c \in Calls, NEW a \in Boxes, Unused(a), Moves(c, {a}) PROVE j = k
  <2>1. /\ Refers(j, b) \/ (j = KeyOf[c] /\ b = a)
        /\ Refers(k, b) \/ (k = KeyOf[c] /\ b = a)
    BY <1>3, MovesRefer
  <2>2. b = a => ~Refers(j, b) /\ ~Refers(k, b)
    BY <1>3 DEF Unused, Refers
  <2> QED
    BY <1>0, <2>1, <2>2
<1> QED
  BY <1>1, <1>2, <1>3, CallMoves

(* A call that is counted in, or runs under its lease: its entry, if it is   *)
(* still there, has a use.                                                   *)
Counted(c) == pc[c] = "touch" \/ leased[c]
LeasesCounted ==
  \A c \in Calls :
    /\ leased[c] => pc[c] \in {"run", "end", "fail"}
    /\ Counted(c) => Entry(c).box = NoBox \/ Entry(c).uses > 0

LEMMA OthersEntries ==
  ASSUME TypeOK, NEW c \in Calls, Call(c) \/ EndTurn(c) \/ Acquire(c) \/ Continue(c)
  PROVE  \A p \in Procs, k \in Keys : p # Home[c] \/ k # KeyOf[c] => entry'[p][k] = entry[p][k]
<1>1. entry \in [Procs -> [Keys -> EntryType]] /\ Home[c] \in Procs /\ KeyOf[c] \in Keys
  BY TypeParts, CallsAssumption DEF SharedTyped
<1>2. entry' = entry \/ \E e : SetEntry(c, e)
  BY DEF Continue, Call, EndTurn, Lookup, GetLock, Acquire, Recheck, Refresh, Reserve, Load,
         ExpireSaved, ClearSaved, Create, Store, Install, Release, Begin, BeginTouch, RunReturns, End, EndTouch,
         Drop, Recover, shared
<1>3. ASSUME NEW e, SetEntry(c, e), NEW p \in Procs, NEW k \in Keys, p # Home[c] \/ k # KeyOf[c]
      PROVE  entry'[p][k] = entry[p][k]
  <2>1. PICK q, j : q = Home[c] /\ j = KeyOf[c]
    OBVIOUS
  <2>2. entry' = [entry EXCEPT ![q] = [entry[q] EXCEPT ![j] = e]]
    BY <1>3, <2>1 DEF SetEntry
  <2> QED
    BY <1>1, <1>3, <2>1, <2>2
<1> QED
  BY <1>2, <1>3

(* The steps by which a call becomes, or stays, counted.                     *)
LEMMA CountedCall ==
  ASSUME TypeOK, UsesCounted, LeasesCounted, NEW c \in Calls,
         Call(c) \/ EndTurn(c) \/ Acquire(c) \/ Continue(c)
  PROVE  /\ leased'[c] => pc'[c] \in {"run", "end", "fail"}
         /\ Counted(c)' => Entry(c)'.box = NoBox \/ Entry(c)'.uses > 0
         /\ \A d \in Calls : d # c => pc'[d] = pc[d] /\ leased'[d] = leased[d]
<1>0. /\ pc \in [Calls -> Phases] /\ leased \in [Calls -> BOOLEAN]
      /\ Entry(c) \in EntryType /\ Entry(c).uses \in Nat /\ entry \in [Procs -> [Keys -> EntryType]]
  <2>1. Home[c] \in Procs /\ KeyOf[c] \in Keys /\ Cardinality(Calls) \in Nat
    BY CallsAssumption, UserSets
  <2> QED
    BY <2>1, TypeParts DEF SharedTyped, CallsTyped, Entry, EntryType, Uses
<1>1. /\ leased[c] => pc[c] \in {"run", "end", "fail"}
      /\ Counted(c) => Entry(c).box = NoBox \/ Entry(c).uses > 0
  BY DEF LeasesCounted
<1>2. CASE Begin(c)
  <2>0. leased' = leased /\ pc[c] = "begin" /\ ~leased[c]
    BY <1>1, <1>2 DEF Begin
  <2>1. CASE Entry(c).box = NoBox
    BY <1>0, <1>2, <2>0, <2>1 DEF Begin, Goto, Counted
  <2>2. CASE Entry(c).box # NoBox
    <3>1. ~Using(c)
      BY <2>0 DEF Using
    <3>2. PICK old : old = Entry(c) /\ old \in EntryType /\ old.uses \in Nat /\ old.uses + 1 \in Uses
      BY <1>0, <3>1, OneMoreUse
    <3>n. PICK n \in Uses : n = old.uses + 1
      BY <3>2
    <3>3. PICK e : e = [old EXCEPT !.uses = n, !.idle = FALSE]
      OBVIOUS
    <3>4. e \in EntryType /\ e.uses = n
      <4>1. old \in EntryType
        BY <3>2
      <4> QED
        BY <3>3, <4>1 DEF EntryType
    <3>p. e.uses > 0
      BY <3>2, <3>n, <3>4
    <3>5. SetEntry(c, e) /\ Goto(c, "touch")
      BY <1>2, <2>2, <3>2, <3>n, <3>3 DEF Begin
    <3>6. Entry(c)' = e
      BY <1>0, <3>4, <3>5, EntryTyped DEF Entry
    <3> QED
      BY <1>0, <2>0, <3>p, <3>5, <3>6 DEF Goto, Counted
  <2> QED
    BY <2>1, <2>2
<1>3. CASE BeginTouch(c) \/ RunReturns(c)
  <2>1. Entry(c)' = Entry(c)
    BY <1>3 DEF BeginTouch, RunReturns, shared, Entry
  <2>2. /\ pc'[c] # "touch" /\ (leased'[c] => pc'[c] \in {"run", "end", "fail"} /\ Counted(c))
        /\ \A d \in Calls : d # c => pc'[d] = pc[d] /\ leased'[d] = leased[d]
    BY <1>0, <1>1, <1>3 DEF BeginTouch, RunReturns, Finish, Goto, Counted
  <2> QED
    BY <1>1, <2>1, <2>2 DEF Counted
<1>4. CASE End(c)
  BY <1>0, <1>4 DEF End, Finish, Goto, Counted
<1>5. CASE \/ Call(c) \/ EndTurn(c) \/ Lookup(c) \/ GetLock(c) \/ Acquire(c) \/ Recheck(c) \/ Refresh(c)
           \/ Reserve(c) \/ Load(c) \/ ExpireSaved(c) \/ ClearSaved(c) \/ Create(c) \/ Store(c)
           \/ Install(c) \/ Release(c) \/ EndTouch(c) \/ Drop(c) \/ Recover(c)
  <2>1. leased' = leased /\ pc[c] \notin {"run", "end", "fail"}
    BY <1>5 DEF Call, EndTurn, Lookup, GetLock, Acquire, Recheck, Refresh, Reserve, Load, ExpireSaved,
         ClearSaved, Create, Store, Install, Release, EndTouch, Drop, Recover, locals
  <2>2. (pc' = pc /\ pc[c] = "ready") \/ \E s \in Phases \ {"touch"} : Goto(c, s)
    BY <1>5 DEF Call, EndTurn, Lookup, GetLock, Acquire, Recheck, Refresh, Reserve, Load, ExpireSaved,
         ClearSaved, Create, Store, Install, Release, GiveUp, EndTouch, Drop, Recover, Finish, locals,
         Phases, Creating
  <2> QED
    BY <1>0, <1>1, <2>1, <2>2 DEF Goto, Counted
<1> QED
  BY <1>2, <1>3, <1>4, <1>5 DEF Continue

LEMMA LeaseStep ==
  ASSUME AllKeysDiffer, TypeOK, UsesCounted, LeasesCounted, [Next]_vars
  PROVE  LeasesCounted'
<1> SUFFICES ASSUME NEW d \in Calls
             PROVE  /\ leased'[d] => pc'[d] \in {"run", "end", "fail"}
                    /\ Counted(d)' => Entry(d)'.box = NoBox \/ Entry(d)'.uses > 0
  BY DEF LeasesCounted
<1>0. /\ leased[d] => pc[d] \in {"run", "end", "fail"}
      /\ Counted(d) => Entry(d).box = NoBox \/ Entry(d).uses > 0
      /\ Home[d] \in Procs /\ KeyOf[d] \in Keys
  BY CallsAssumption DEF LeasesCounted
<1>1. ASSUME NEW c \in Calls, Call(c) \/ EndTurn(c) \/ Acquire(c) \/ Continue(c), c # d
      PROVE  /\ leased'[d] => pc'[d] \in {"run", "end", "fail"}
             /\ Counted(d)' => Entry(d)'.box = NoBox \/ Entry(d)'.uses > 0
  <2>1. KeyOf[d] # KeyOf[c]
    BY <1>1 DEF AllKeysDiffer
  <2>2. Entry(d)' = Entry(d)
    BY <1>0, <1>1, <2>1, OthersEntries DEF Entry
  <2>3. pc'[d] = pc[d] /\ leased'[d] = leased[d]
    BY <1>1, CountedCall
  <2> QED
    BY <1>0, <2>2, <2>3 DEF Counted
<1>2. CASE ~\E c \in Calls : Call(c) \/ EndTurn(c) \/ Acquire(c) \/ Continue(c)
  <2>1. \/ Entry(d)'.box = NoBox
        \/ Entry(d)'.box = Entry(d).box /\ Entry(d)'.uses = Entry(d).uses
    BY <1>0, <1>2, BackgroundLoses DEF EntriesRest, Entry
  <2>2. (leased'[d] = leased[d] /\ pc'[d] = pc[d]) \/ (leased'[d] = FALSE /\ pc'[d] = "ready")
    <3>1. ASSUME NEW p \in Procs, Crash(p)
          PROVE  (leased'[d] = leased[d] /\ pc'[d] = pc[d]) \/ (leased'[d] = FALSE /\ pc'[d] = "ready")
      BY <3>1 DEF Crash
    <3>2. CASE ~\E p \in Procs : Crash(p)
      BY <1>2, <3>2 DEF Next, Reap, ReapEntries, ReapKill, ReadRows, CheckRow, KillRow, CommitRows, CloseEntry,
           CloseKill, CloseRow, Expire, TimePasses, EntryIdles, RowIdles, LeaseEnds, calls, locals, vars
    <3> QED
      BY <3>1, <3>2
  <2> QED
    BY <1>0, <2>1, <2>2 DEF Counted
<1> QED
  BY <1>1, <1>2, CountedCall

(* Only the reaper's first pass puts a sandbox among the doomed.             *)
LEMMA Dooming ==
  ASSUME TypeOK, [Next]_vars, NEW p \in Procs, NEW b \in reaper'[p].doomed, b \notin reaper[p].doomed
  PROVE  \E k \in Keys : Stale(p, k) /\ entry[p][k].box = b
<1>0. reaper \in [Procs -> Reaping \union KillingRow]
  BY TypeParts DEF ReaperTyped
<1>1. ASSUME NEW q \in Procs, NEW r, r.doomed \subseteq reaper[q].doomed, Becomes(q, r) PROVE FALSE
  BY <1>0, <1>1 DEF Becomes
<1>2. reaper' # reaper
  OBVIOUS
<1>3. ASSUME NEW q \in Procs, ReapEntries(q) PROVE \E k \in Keys : Stale(p, k) /\ entry[p][k].box = b
  <2>1. PICK new : new = {entry[q][k].box : k \in {j \in Keys : Stale(q, j)}}
    OBVIOUS
  <2>2. reaper' = [reaper EXCEPT ![q] = [reaper[q] EXCEPT !.at = "kill", !.doomed = new]]
    BY <1>3, <2>1 DEF ReapEntries, Becomes
  <2>3. q = p
    BY <1>0, <2>2
  <2>4. reaper'[p].doomed = new
    BY <1>0, <2>2, <2>3 DEF Reaping, KillingRow
  <2> QED
    BY <2>1, <2>3, <2>4
<1>4. ASSUME NEW q \in Procs, ReapKill(q) PROVE FALSE
  <2>1. PICK a : Becomes(q, [reaper[q] EXCEPT !.doomed = @ \ {a}])
    BY <1>4 DEF ReapKill
  <2>2. [reaper[q] EXCEPT !.doomed = @ \ {a}].doomed \subseteq reaper[q].doomed
    BY <1>0 DEF Reaping, KillingRow
  <2> QED
    BY <1>1, <2>1, <2>2
<1>5. ASSUME NEW q \in Procs, ReadRows(q) PROVE FALSE
  <2>1. PICK s : Becomes(q, [reaper[q] EXCEPT !.at = "rows", !.snap = s])
    BY <1>5 DEF ReadRows
  <2>2. [reaper[q] EXCEPT !.at = "rows", !.snap = s].doomed = reaper[q].doomed
    BY <1>0 DEF Reaping, KillingRow
  <2> QED
    BY <1>1, <2>1, <2>2
<1>6. ASSUME NEW q \in Procs, NEW k \in Keys, CheckRow(q, k) PROVE FALSE
  <2>1. CASE Registered(q, k)
    <3>1. PICK s : s = [reaper[q].snap EXCEPT ![k] = NoBox]
      OBVIOUS
    <3>2. Becomes(q, [reaper[q] EXCEPT !.snap = s])
      BY <1>0, <1>6, <2>1, <3>1 DEF CheckRow
    <3>3. [reaper[q] EXCEPT !.snap = s].doomed = reaper[q].doomed
      BY <1>0 DEF Reaping, KillingRow
    <3> QED
      BY <1>1, <3>2, <3>3
  <2>2. CASE ~Registered(q, k)
    <3>1. Becomes(q, [at |-> "rowkill", key |-> k, doomed |-> {},
                      snap |-> reaper[q].snap, cleared |-> reaper[q].cleared])
      BY <1>6, <2>2 DEF CheckRow
    <3> QED
      BY <1>1, <3>1
  <2> QED
    BY <2>1, <2>2
<1>7. ASSUME NEW q \in Procs, KillRow(q) PROVE FALSE
  <2>1. PICK s, l : Becomes(q, [at |-> "rows", doomed |-> {}, snap |-> s, cleared |-> l])
    BY <1>7 DEF KillRow
  <2> QED
    BY <1>1, <2>1
<1>8. ASSUME NEW q \in Procs, CommitRows(q) \/ Crash(q) PROVE FALSE
  <2>1. Becomes(q, Resting) /\ Resting.doomed = {}
    BY <1>8 DEF CommitRows, Crash, Resting
  <2> QED
    BY <1>1, <2>1
<1>9. ASSUME NEW c \in Calls, Call(c) \/ EndTurn(c) \/ Acquire(c) \/ Continue(c) PROVE FALSE
  BY <1>2, <1>9 DEF Continue, Call, EndTurn, Lookup, GetLock, Acquire, Recheck, Refresh, Reserve, Load,
         ExpireSaved, ClearSaved, Create, Store, Install, Release, Begin, BeginTouch, RunReturns, End, EndTouch,
         Drop, Recover, background
<1> QED
  BY <1>2, <1>3, <1>4, <1>5, <1>6, <1>7, <1>8, <1>9
     DEF Next, Reap, CloseEntry, CloseKill, CloseRow, Expire, TimePasses, EntryIdles, RowIdles, LeaseEnds,
         background, vars

LEMMA InitLeases ==
  Init => Peopled /\ Owned /\ LeasesCounted
<1> SUFFICES ASSUME Init PROVE Peopled /\ Owned /\ LeasesCounted
  OBVIOUS
<1>1. Peopled
  BY DEF Init, Peopled, Registered, NoEntry
<1>2. Owned
  BY NoneAssumption DEF Init, Owned, Refers, NoEntry, NoRow
<1>3. LeasesCounted
  BY DEF Init, LeasesCounted, Counted
<1> QED
  BY <1>1, <1>2, <1>3

(* When no two calls share a conversation, the reaper of no process takes    *)
(* the sandbox of a command that runs under a lease: no sandbox serves two   *)
(* keys, and the entry of a leased command, while it lasts, has a use.       *)
THEOREM LeasedNotReaped ==
  ASSUME AllKeysDiffer
  PROVE  Spec => InUseNotReaped
<1> DEFINE Inv == TypeOK /\ UsesCounted /\ Peopled /\ Owned /\ LeasesCounted
           Safe == \A p \in Procs, c \in Calls :
                     pc[c] = "run" /\ leased[c] /\ handle[c] \in reaper'[p].doomed
                       => handle[c] \in reaper[p].doomed
<1>1. Init => Inv
  BY InitTyped, InitLeases
<1>2. Inv /\ [Next]_vars => Inv'
  BY TypeStep, PeopledStep, OwnedStep, LeaseStep
<1>3. Inv /\ [Next]_vars => [Safe]_vars
  <2> SUFFICES ASSUME Inv, [Next]_vars, NEW p \in Procs, NEW c \in Calls, pc[c] = "run", leased[c],
                      handle[c] \in reaper'[p].doomed, handle[c] \notin reaper[p].doomed
               PROVE  FALSE
    OBVIOUS
  <2>1. PICK k \in Keys : Stale(p, k) /\ entry[p][k].box = handle[c]
    BY Dooming
  <2>2. handle[c] \in Boxes /\ KeyOf[c] \in Keys
    BY <2>1, CallsAssumption DEF Stale, Registered, TypeOK, BoxOrNone
  <2>3. Refers(KeyOf[c], handle[c]) /\ Refers(k, handle[c])
    BY <2>1 DEF Refers
  <2>4. KeyOf[c] = k
    BY <2>2, <2>3 DEF Owned
  <2>5. PICK d \in Calls : Home[d] = p /\ KeyOf[d] = k
    BY <2>1 DEF Peopled, Stale
  <2>6. Home[c] = p
    BY <2>4, <2>5 DEF AllKeysDiffer
  <2>7. Entry(c) = entry[p][k] /\ (Entry(c).box = NoBox \/ Entry(c).uses > 0)
    BY <2>4, <2>6 DEF Entry, LeasesCounted, Counted
  <2> QED
    BY <2>1, <2>7 DEF Stale, Registered
<1> QED
  BY <1>1, <1>2, <1>3, PTL DEF Spec, InUseNotReaped

-----------------------------------------------------------------------------
(* Progress *)

(* The phases of a call that waits for a creation lock or holds it.          *)
Holding == Creating \union {"recheck", "refresh", "reserve", "release"}

(* A creation lock belongs to one key of one process, in the table and among *)
(* the calls.  One that is held is given back with the phases that need it.  *)
LockPhases == \A c \in Calls : lock[c] # NoLock <=> pc[c] \in Holding \union {"acquire"}
LockTable ==
  \A p \in Procs, k \in Keys : lockOf[p][k] # NoLock =>
    /\ \A q \in Procs, j \in Keys : lockOf[q][j] = lockOf[p][k] => q = p /\ j = k
    /\ \A c \in Calls : lock[c] = lockOf[p][k] => Home[c] = p /\ KeyOf[c] = k
LockLocal ==
  \A c, d \in Calls : lock[c] = lock[d] /\ lock[c] # NoLock => Home[c] = Home[d] /\ KeyOf[c] = KeyOf[d]
OneHolder ==
  \A c, d \in Calls : lock[c] = lock[d] /\ pc[c] \in Holding /\ pc[d] \in Holding => c = d
LockInv == LockPhases /\ LockTable /\ LockLocal /\ OneHolder

(* A lock object that nothing refers to.                                     *)
FreshLock(l) ==
  /\ \A d \in Calls : lock[d] # l
  /\ \A q \in Procs, j \in Keys : lockOf[q][j] # l

(* The guards of a call under way: only the creation lock may keep it        *)
(* waiting.                                                                  *)
MayGoOn(c) ==
  CASE pc[c] = "ready" -> FALSE
    [] pc[c] = "getlock" -> lockOf[Home[c]][KeyOf[c]] # NoLock \/ \E l \in Locks : FreshLock(l)
    [] pc[c] = "acquire" -> ~Held(lock[c])
    [] OTHER -> TRUE

(* A call under way can go on, or waits for the creation lock of its key,    *)
(* whose holder is another call of its process and key and can go on.        *)
CallsGoOn ==
  \A c \in Calls : pc[c] # "ready" =>
    \/ MayGoOn(c)
    \/ \E d \in Calls \ {c} : /\ Home[d] = Home[c] /\ KeyOf[d] = KeyOf[c]
                              /\ lock[d] = lock[c] /\ pc[d] \in Holding /\ MayGoOn(d)

(* What is left of a call: its phase, and whether it may still be retried    *)
(* after its sandbox was lost.  A creation that failed to resume the saved   *)
(* sandbox is tried once more without it.                                    *)
Rank ==
  [lookup |-> 22, getlock |-> 21, acquire |-> 20, recheck |-> 19, refresh |-> 18, reserve |-> 18,
   load |-> 17, expire |-> 16, create |-> 15, clear |-> 14, store |-> 12, install |-> 11,
   release |-> 10, begin |-> 9, touch |-> 8, run |-> 7, end |-> 6, fail |-> 6,
   untouch |-> 5, unfail |-> 5, drop |-> 4, recover |-> 3, ready |-> 0]
Left(s, box, again) ==
  IF s = "ready" THEN 0
  ELSE (IF s = "create" /\ box = NoBox THEN 13 ELSE Rank[s]) + (IF again THEN 0 ELSE 22)
LeftOf(c) == Left(pc[c], found[c], retried[c])

(* The row has been cleared of a sandbox that is no longer looked for.       *)
ClearedFound == \A c \in Calls : pc[c] = "clear" => found[c] = NoBox

(* No step of the system sets a call back.                                   *)
NoCallBack ==
  \A c \in Calls : \/ pc'[c] = pc[c] /\ LeftOf(c)' = LeftOf(c)
                   \/ LeftOf(c)' < LeftOf(c)
                   \/ pc[c] = "ready" /\ pc'[c] \in {"lookup", "begin"}

LEMMA Ranked ==
  /\ Rank["lookup"] = 22 /\ Rank["getlock"] = 21 /\ Rank["acquire"] = 20 /\ Rank["recheck"] = 19
  /\ Rank["refresh"] = 18 /\ Rank["reserve"] = 18 /\ Rank["load"] = 17 /\ Rank["expire"] = 16
  /\ Rank["create"] = 15 /\ Rank["clear"] = 14 /\ Rank["store"] = 12 /\ Rank["install"] = 11
  /\ Rank["release"] = 10 /\ Rank["begin"] = 9 /\ Rank["touch"] = 8 /\ Rank["run"] = 7
  /\ Rank["end"] = 6 /\ Rank["fail"] = 6 /\ Rank["untouch"] = 5 /\ Rank["unfail"] = 5
  /\ Rank["drop"] = 4 /\ Rank["recover"] = 3
  BY DEF Rank

LEMMA RankBounds == \A s \in Phases : s # "ready" => Rank[s] \in 3 .. 22
  BY Ranked DEF Phases, Creating

(* What a step of a call means to its progress: it starts, it ends, it goes  *)
(* to a phase of a lower rank, or it starts its second attempt.              *)
Starts(c) == pc[c] = "ready" /\ pc'[c] \in {"lookup", "begin"}
Ends(c) == pc[c] # "ready" /\ pc'[c] = "ready"
GoesOn(c) ==
  /\ pc[c] # "ready" /\ retried'[c] = retried[c] /\ pc'[c] # "clear"
  /\ \/ pc[c] \notin {"create", "clear"} /\ pc'[c] # "ready" /\ Rank[pc'[c]] < Rank[pc[c]]
     \/ pc[c] = "create" /\ pc'[c] \in {"store", "release"}
     \/ pc[c] = "clear" /\ pc'[c] = "create" /\ found'[c] = found[c]
Clears(c) ==
  /\ pc[c] \in {"expire", "create"} /\ pc'[c] = "clear" /\ found'[c] = NoBox
  /\ retried'[c] = retried[c]
  /\ pc[c] = "create" => found[c] # NoBox
Retries(c) == pc[c] = "recover" /\ ~retried[c] /\ retried'[c] /\ pc'[c] = "lookup"
Rests(c) == UNCHANGED <<pc[c], found[c], retried[c]>>

Moved(c) == Starts(c) \/ Ends(c) \/ GoesOn(c) \/ Clears(c) \/ Retries(c) \/ Rests(c)

(* The variables of the other calls, and the types of this one's.            *)
LEMMA CallAlone ==
  ASSUME TypeOK, NEW c \in Calls, Call(c) \/ EndTurn(c) \/ Acquire(c) \/ Continue(c)
  PROVE  \A d \in Calls : d # c =>
           UNCHANGED <<pc[d], found[d], retried[d], lock[d]>>
<1>0. /\ pc \in [Calls -> Phases] /\ found \in [Calls -> BoxOrNone] /\ retried \in [Calls -> BOOLEAN]
      /\ lock \in [Calls -> Locks \union {NoLock}]
  BY DEF TypeOK
<1>1. pc' = pc \/ \E s : pc' = [pc EXCEPT ![c] = s]
  BY DEF Continue, Call, EndTurn, Lookup, GetLock, Acquire, Recheck, Refresh, Reserve, Load,
         ExpireSaved, ClearSaved, Create, Store, Install, Release, GiveUp, Begin, BeginTouch, RunReturns, End,
         EndTouch, Drop, Recover, Finish, Goto
<1>2. found' = found \/ \E b : found' = [found EXCEPT ![c] = b]
  BY DEF Continue, Call, EndTurn, Lookup, GetLock, Acquire, Recheck, Refresh, Reserve, Load,
         ExpireSaved, ClearSaved, Create, Store, Install, Release, GiveUp, Begin, BeginTouch, RunReturns, End,
         EndTouch, Drop, Recover, locals
<1>3. retried' = retried \/ \E b : retried' = [retried EXCEPT ![c] = b]
  BY DEF Continue, Call, EndTurn, Lookup, GetLock, Acquire, Recheck, Refresh, Reserve, Load,
         ExpireSaved, ClearSaved, Create, Store, Install, Release, GiveUp, Begin, BeginTouch, RunReturns, End,
         EndTouch, Drop, Recover, Finish, locals
<1>4. lock' = lock \/ \E l : lock' = [lock EXCEPT ![c] = l]
  BY DEF Continue, Call, EndTurn, Lookup, GetLock, Acquire, Recheck, Refresh, Reserve, Load,
         ExpireSaved, ClearSaved, Create, Store, Install, Release, GiveUp, Begin, BeginTouch, RunReturns, End,
         EndTouch, Drop, Recover, locals
<1> SUFFICES ASSUME NEW d \in Calls, d # c
             PROVE  UNCHANGED <<pc[d], found[d], retried[d], lock[d]>>
  OBVIOUS
<1>5. pc'[d] = pc[d]
  BY <1>0, <1>1
<1>6. found'[d] = found[d]
  BY <1>0, <1>2
<1>7. retried'[d] = retried[d]
  BY <1>0, <1>3
<1>8. lock'[d] = lock[d]
  BY <1>0, <1>4
<1> QED
  BY <1>5, <1>6, <1>7, <1>8

(* One step of a call.                                                       *)
LEMMA CallMoved ==
  ASSUME TypeOK, NEW c \in Calls, Call(c) \/ EndTurn(c) \/ Acquire(c) \/ Continue(c)
  PROVE  Moved(c)
<1>0. /\ pc \in [Calls -> Phases] /\ found \in [Calls -> BoxOrNone] /\ retried \in [Calls -> BOOLEAN]
  BY DEF TypeOK
<1>1. ASSUME NEW s, Goto(c, s) PROVE pc'[c] = s
  BY <1>0, <1>1 DEF Goto
<1>2. CASE Call(c)
  BY <1>1, <1>2 DEF Call, Moved, Starts
<1>3. CASE EndTurn(c)
  BY <1>3 DEF EndTurn, Moved, Rests
<1>4. CASE \/ Lookup(c) \/ GetLock(c) \/ Acquire(c) \/ Load(c) \/ ClearSaved(c) \/ Store(c) \/ Install(c)
           \/ Begin(c) \/ BeginTouch(c) \/ Drop(c) \/ Recheck(c) \/ Refresh(c)
  <2>1. retried' = retried
    BY <1>4 DEF Lookup, GetLock, Acquire, Load, ClearSaved, Store, Install, Begin, BeginTouch, Drop, Recheck,
                Refresh, locals
  <2>2. CASE Lookup(c) \/ GetLock(c) \/ Acquire(c) \/ Recheck(c)
    <3>1. \/ pc[c] = "lookup" /\ pc'[c] \in {"begin", "getlock"}
          \/ pc[c] = "getlock" /\ pc'[c] = "acquire"
          \/ pc[c] = "acquire" /\ pc'[c] \in {"reserve", "recheck"}
          \/ pc[c] = "recheck" /\ pc'[c] \in {"refresh", "reserve"}
      BY <1>1, <2>2 DEF Lookup, GetLock, Acquire, Recheck
    <3>2. Rank[pc'[c]] < Rank[pc[c]]
      BY <3>1, Ranked
    <3> QED
      BY <2>1, <3>1, <3>2 DEF Moved, GoesOn
  <2>3. CASE Load(c) \/ ClearSaved(c) \/ Store(c) \/ Install(c)
    <3>1. \/ pc[c] = "load" /\ pc'[c] \in {"expire", "create"}
          \/ pc[c] = "clear" /\ pc'[c] = "create" /\ found' = found
          \/ pc[c] = "store" /\ pc'[c] = "install"
          \/ pc[c] = "install" /\ pc'[c] = "release"
      BY <1>1, <2>3 DEF Load, ClearSaved, Store, Install, locals
    <3>2. pc[c] # "clear" => Rank[pc'[c]] < Rank[pc[c]]
      BY <3>1, Ranked
    <3> QED
      BY <2>1, <3>1, <3>2 DEF Moved, GoesOn
  <2>4. CASE Refresh(c) \/ Begin(c) \/ BeginTouch(c) \/ Drop(c)
    <3>1. \/ pc[c] = "refresh" /\ pc'[c] = "begin"
          \/ pc[c] = "begin" /\ pc'[c] \in {"run", "touch"}
          \/ pc[c] = "touch" /\ pc'[c] \in {"run", "drop"}
          \/ pc[c] = "drop" /\ pc'[c] = "recover"
      BY <1>1, <2>4 DEF Refresh, Begin, BeginTouch, Drop
    <3>2. Rank[pc'[c]] < Rank[pc[c]]
      BY <3>1, Ranked
    <3> QED
      BY <2>1, <3>1, <3>2 DEF Moved, GoesOn
  <2> QED
    BY <1>4, <2>2, <2>3, <2>4
<1>5. CASE Reserve(c) \/ Release(c) \/ RunReturns(c) \/ End(c) \/ EndTouch(c)
  <2>1. \/ Ends(c)
        \/ /\ retried' = retried
           /\ \/ pc[c] = "reserve" /\ pc'[c] = "load"
              \/ pc[c] = "release" /\ pc'[c] = "begin"
              \/ pc[c] = "run" /\ pc'[c] \in {"end", "fail", "recover"}
              \/ pc[c] = "end" /\ pc'[c] = "untouch"
              \/ pc[c] = "fail" /\ pc'[c] \in {"unfail", "recover"}
              \/ pc[c] = "untouch" /\ pc'[c] = "drop"
              \/ pc[c] = "unfail" /\ pc'[c] \in {"recover", "drop"}
    BY <1>1, <1>5 DEF Reserve, Release, RunReturns, End, EndTouch, GiveUp, Finish, Ends
  <2> QED
    BY <2>1, Ranked DEF Moved, GoesOn
<1>6. CASE ExpireSaved(c)
  <2>1. /\ pc[c] = "expire" /\ retried' = retried /\ found'[c] = NoBox
        /\ pc'[c] \in {"clear", "create"}
    BY <1>0, <1>1, <1>6 DEF ExpireSaved
  <2> QED
    BY <2>1, Ranked DEF Moved, GoesOn, Clears
<1>7. CASE Create(c)
  <2>1. /\ pc[c] = "create" /\ retried' = retried
        /\ \/ pc'[c] \in {"store", "release"}
           \/ pc'[c] = "clear" /\ found'[c] = NoBox /\ found[c] \in Boxes
    BY <1>0, <1>1, <1>7 DEF Create
  <2> QED
    BY <2>1, NoneAssumption DEF Moved, GoesOn, Clears
<1>8. CASE Recover(c)
  <2>1. pc[c] = "recover" /\ (pc'[c] = "ready" \/ (~retried[c] /\ retried'[c] = TRUE /\ pc'[c] = "lookup"))
    BY <1>0, <1>1, <1>8 DEF Recover, Finish
  <2> QED
    BY <2>1 DEF Moved, Ends, Retries
<1> QED
  BY <1>2, <1>3, <1>4, <1>5, <1>6, <1>7, <1>8 DEF Continue

(* What the reaper, a reset, a crash and time do to a call: nothing, or it   *)
(* dies with its process, and its creation lock with it.                     *)
LEMMA BackgroundLocks ==
  ASSUME TypeOK, [Next]_vars, ~\E c \in Calls : Call(c) \/ EndTurn(c) \/ Acquire(c) \/ Continue(c)
  PROVE  /\ \A c \in Calls : \/ UNCHANGED <<pc[c], found[c], retried[c], lock[c]>>
                             \/ pc'[c] = "ready" /\ lock'[c] = NoLock
         /\ \A p \in Procs, k \in Keys : lockOf'[p][k] \in {lockOf[p][k], NoLock}
<1>0. lockOf \in [Procs -> [Keys -> Locks \union {NoLock}]]
  BY DEF TypeOK
<1>1. CASE UNCHANGED calls /\ lockOf' = lockOf
  BY <1>1 DEF calls, locals
<1>2. ASSUME NEW p \in Procs, Crash(p)
      PROVE  /\ \A c \in Calls : \/ UNCHANGED <<pc[c], found[c], retried[c], lock[c]>>
                                 \/ pc'[c] = "ready" /\ lock'[c] = NoLock
             /\ \A q \in Procs, k \in Keys : lockOf'[q][k] \in {lockOf[q][k], NoLock}
  <2>1. \A c \in Calls : \/ UNCHANGED <<pc[c], found[c], retried[c], lock[c]>>
                         \/ pc'[c] = "ready" /\ lock'[c] = NoLock
    BY <1>2 DEF Crash
  <2>2. lockOf' = [lockOf EXCEPT ![p] = [k \in Keys |-> NoLock]]
    BY <1>2 DEF Crash
  <2> QED
    BY <1>0, <2>1, <2>2
<1>3. ASSUME NEW p \in Procs, ReadRows(p)
      PROVE  /\ UNCHANGED calls
             /\ \A q \in Procs, k \in Keys : lockOf'[q][k] \in {lockOf[q][k], NoLock}
  <2>1. PICK f : f = [k \in Keys |-> IF ~Registered(p, k) /\ ~Held(lockOf[p][k]) THEN NoLock ELSE lockOf[p][k]]
    OBVIOUS
  <2>2. lockOf' = [lockOf EXCEPT ![p] = f]
    BY <1>3, <2>1 DEF ReadRows
  <2>3. \A k \in Keys : f[k] \in {lockOf[p][k], NoLock}
    BY <2>1
  <2> QED
    BY <1>0, <1>3, <2>2, <2>3 DEF ReadRows
<1>4. ASSUME NEW p \in Procs,
             \/ ReapEntries(p) \/ ReapKill(p) \/ (\E k \in Keys : CheckRow(p, k)) \/ KillRow(p) \/ CommitRows(p)
             \/ (\E k \in Keys : CloseEntry(p, k)) \/ CloseKill(p) \/ CloseRow(p)
      PROVE  UNCHANGED calls /\ lockOf' = lockOf
  BY <1>4 DEF ReapEntries, ReapKill, CheckRow, KillRow, CommitRows, CloseEntry, CloseKill, CloseRow, shared
<1>5. ASSUME (\E b \in Boxes : Expire(b)) \/ TimePasses \/ UNCHANGED vars
      PROVE  UNCHANGED calls /\ lockOf' = lockOf
  BY <1>5 DEF Expire, TimePasses, EntryIdles, RowIdles, LeaseEnds, vars, calls
<1> QED
  BY <1>1, <1>2, <1>3, <1>4, <1>5 DEF Next, Reap, calls, locals

LEMMA ClearedStep == TypeOK /\ ClearedFound /\ [Next]_vars => ClearedFound'
<1> SUFFICES ASSUME TypeOK, ClearedFound, [Next]_vars, NEW d \in Calls, pc'[d] = "clear"
             PROVE  found'[d] = NoBox
  BY DEF ClearedFound
<1>1. ASSUME NEW c \in Calls, Call(c) \/ EndTurn(c) \/ Acquire(c) \/ Continue(c)
      PROVE  found'[d] = NoBox
  <2>1. CASE d = c
    BY <1>1, <2>1, CallMoved DEF Moved, Starts, Ends, GoesOn, Clears, Retries, Rests, ClearedFound
  <2>2. CASE d # c
    BY <1>1, <2>2, CallAlone DEF ClearedFound
  <2> QED
    BY <2>1, <2>2
<1>2. CASE ~\E c \in Calls : Call(c) \/ EndTurn(c) \/ Acquire(c) \/ Continue(c)
  BY <1>2, BackgroundLocks DEF ClearedFound
<1> QED
  BY <1>1, <1>2

(* A step of a call, unless it starts it, leaves less of it.                 *)
LEMMA MovedLess ==
  ASSUME TypeOK, ClearedFound, NEW c \in Calls, Moved(c), pc'[c] \in Phases
  PROVE  \/ pc'[c] = pc[c] /\ LeftOf(c)' = LeftOf(c)
         \/ LeftOf(c)' < LeftOf(c)
         \/ pc[c] = "ready" /\ pc'[c] \in {"lookup", "begin"}
<1>0. pc[c] \in Phases /\ retried[c] \in BOOLEAN
  BY DEF TypeOK
<1>1. PICK a, b : /\ a = (IF pc[c] = "create" /\ found[c] = NoBox THEN 13 ELSE Rank[pc[c]])
                  /\ b = (IF pc'[c] = "create" /\ found'[c] = NoBox THEN 13 ELSE Rank[pc'[c]])
  OBVIOUS
<1>2. /\ LeftOf(c) = IF pc[c] = "ready" THEN 0 ELSE a + (IF retried[c] THEN 0 ELSE 22)
      /\ LeftOf(c)' = IF pc'[c] = "ready" THEN 0 ELSE b + (IF retried'[c] THEN 0 ELSE 22)
  BY <1>1 DEF LeftOf, Left
<1>3. (pc[c] # "ready" => a \in 3 .. 22) /\ (pc'[c] # "ready" => b \in 3 .. 22)
  BY <1>0, <1>1, RankBounds
<1>4. CASE Starts(c) \/ Rests(c)
  BY <1>4 DEF Starts, Rests, LeftOf
<1>5. CASE Ends(c)
  BY <1>2, <1>3, <1>5 DEF Ends
<1>6. CASE GoesOn(c)
  <2>1. b < a
    <3>1. CASE pc[c] = "create"
      BY <1>1, <1>6, <3>1, Ranked DEF GoesOn
    <3>2. CASE pc[c] = "clear"
      <4>1. found[c] = NoBox /\ found'[c] = NoBox
        BY <1>6, <3>2 DEF GoesOn, ClearedFound
      <4>2. a = 14 /\ pc'[c] = "create"
        BY <1>1, <1>6, <3>2, Ranked DEF GoesOn
      <4> QED
        BY <1>1, <4>1, <4>2
    <3>3. CASE pc[c] \notin {"create", "clear"}
      <4>1. a = Rank[pc[c]] /\ Rank[pc'[c]] < Rank[pc[c]] /\ pc'[c] # "ready"
        BY <1>1, <1>6, <3>3 DEF GoesOn
      <4>2. pc'[c] = "create" => b <= 15 /\ Rank[pc'[c]] = 15
        BY <1>1, Ranked
      <4>3. pc'[c] # "create" => b = Rank[pc'[c]]
        BY <1>1
      <4>4. a \in 3 .. 22 /\ b \in 3 .. 22
        BY <1>3, <1>6, <4>1 DEF GoesOn
      <4> QED
        BY <4>1, <4>2, <4>3, <4>4
    <3> QED
      BY <3>1, <3>2, <3>3
  <2>2. pc[c] # "ready" /\ pc'[c] # "ready" /\ retried'[c] = retried[c]
    BY <1>6 DEF GoesOn
  <2> QED
    BY <1>2, <1>3, <2>1, <2>2
<1>7. CASE Clears(c)
  <2>1. a \in {15, 16} /\ b = 14
    BY <1>1, <1>7, Ranked DEF Clears
  <2> QED
    BY <1>2, <1>7, <2>1 DEF Clears
<1>8. CASE Retries(c)
  BY <1>2, <1>3, <1>8 DEF Retries
<1> QED
  BY <1>4, <1>5, <1>6, <1>7, <1>8 DEF Moved

LEMMA NoCallBackStep == TypeOK /\ UsesCounted /\ ClearedFound /\ [Next]_vars => NoCallBack
<1> SUFFICES ASSUME TypeOK, UsesCounted, ClearedFound, [Next]_vars, NEW d \in Calls
             PROVE  \/ pc'[d] = pc[d] /\ LeftOf(d)' = LeftOf(d)
                    \/ LeftOf(d)' < LeftOf(d)
                    \/ pc[d] = "ready" /\ pc'[d] \in {"lookup", "begin"}
  BY DEF NoCallBack
<1>0. pc'[d] \in Phases
  BY TypeStep DEF TypeOK
<1>1. ASSUME NEW c \in Calls, Call(c) \/ EndTurn(c) \/ Acquire(c) \/ Continue(c)
      PROVE  Moved(d)
  BY <1>1, CallMoved, CallAlone DEF Moved, Rests
<1>2. CASE ~\E c \in Calls : Call(c) \/ EndTurn(c) \/ Acquire(c) \/ Continue(c)
  <2>1. UNCHANGED <<pc[d], found[d], retried[d]>> \/ pc'[d] = "ready"
    BY <1>2, BackgroundLocks
  <2>2. CASE pc'[d] = "ready" /\ pc[d] # "ready"
    BY <1>0, <2>2, MovedLess DEF Moved, Ends
  <2>3. CASE pc'[d] = "ready" /\ pc[d] = "ready"
    BY <2>3 DEF LeftOf, Left
  <2> QED
    BY <2>1, <2>2, <2>3 DEF LeftOf
<1> QED
  BY <1>0, <1>1, <1>2, MovedLess

(* What a step of a call means to the creation locks: it fetches the one of  *)
(* its key, or a new one; it takes it; it gives it back; or it stays as it   *)
(* is, with a lock or without.                                               *)
Fetches(c) ==
  /\ pc[c] = "getlock" /\ pc'[c] = "acquire"
  /\ \E l \in Locks :
       /\ lock'[c] = l
       /\ lockOf' = [lockOf EXCEPT ![Home[c]][KeyOf[c]] = l]
       /\ lockOf[Home[c]][KeyOf[c]] # NoLock => l = lockOf[Home[c]][KeyOf[c]]
       /\ lockOf[Home[c]][KeyOf[c]] = NoLock => FreshLock(l)
Takes(c) ==
  /\ pc[c] = "acquire" /\ pc'[c] \in Holding
  /\ ~Held(lock[c])
  /\ lock'[c] = lock[c] /\ lockOf' = lockOf
GivesBack(c) ==
  /\ pc[c] \in Holding /\ pc'[c] \notin Holding \union {"acquire"}
  /\ lock'[c] = NoLock /\ lockOf' = lockOf
Keeps(c) ==
  /\ pc[c] # "acquire" /\ pc'[c] # "acquire"
  /\ pc[c] \in Holding <=> pc'[c] \in Holding
  /\ lock'[c] = lock[c] /\ lockOf' = lockOf

LEMMA CallLocks ==
  ASSUME TypeOK, NEW c \in Calls, Call(c) \/ EndTurn(c) \/ Acquire(c) \/ Continue(c)
  PROVE  Fetches(c) \/ Takes(c) \/ GivesBack(c) \/ Keeps(c)
<1>0. /\ pc \in [Calls -> Phases] /\ lock \in [Calls -> Locks \union {NoLock}]
  BY DEF TypeOK
<1>1. ASSUME NEW s, Goto(c, s) PROVE pc'[c] = s
  BY <1>0, <1>1 DEF Goto
<1>2. CASE GetLock(c)
  <2>1. pc[c] = "getlock" /\ pc'[c] = "acquire"
    BY <1>1, <1>2 DEF GetLock
  <2>2. PICK l \in Locks :
          /\ IF lockOf[Home[c]][KeyOf[c]] # NoLock
             THEN l = lockOf[Home[c]][KeyOf[c]]
             ELSE FreshLock(l)
          /\ lockOf' = [lockOf EXCEPT ![Home[c]][KeyOf[c]] = l]
          /\ lock' = [lock EXCEPT ![c] = l]
    BY <1>2, Zenon DEF GetLock, FreshLock
  <2>3. lock'[c] = l
    BY <1>0, <2>2
  <2> QED
    BY <2>1, <2>2, <2>3 DEF Fetches
<1>3. CASE Acquire(c)
  <2>1. pc[c] = "acquire" /\ pc'[c] \in {"reserve", "recheck"}
    BY <1>1, <1>3 DEF Acquire
  <2> QED
    BY <1>3, <2>1 DEF Acquire, Takes, shared, Holding
<1>4. CASE Reserve(c) \/ Refresh(c) \/ Release(c)
  <2>1. /\ lockOf' = lockOf /\ pc[c] \in {"reserve", "refresh", "release"}
        /\ \/ lock'[c] = NoLock /\ pc'[c] \in {"ready", "begin"}
           \/ lock' = lock /\ pc[c] = "reserve" /\ pc'[c] = "load"
    BY <1>0, <1>1, <1>4 DEF Reserve, Refresh, Release, GiveUp
  <2> QED
    BY <2>1 DEF GivesBack, Keeps, Holding, Creating
<1>5. CASE Recheck(c) \/ Load(c) \/ ExpireSaved(c) \/ ClearSaved(c) \/ Create(c) \/ Store(c) \/ Install(c)
  <2>1. /\ pc[c] \in {"recheck", "load", "expire", "clear", "create", "store", "install"}
        /\ pc'[c] \in {"refresh", "reserve", "expire", "create", "clear", "store", "release", "install"}
    BY <1>1, <1>5 DEF Recheck, Load, ExpireSaved, ClearSaved, Create, Store, Install
  <2>2. lock' = lock /\ lockOf' = lockOf
    BY <1>5 DEF Recheck, Load, ExpireSaved, ClearSaved, Create, Store, Install, shared, locals
  <2> QED
    BY <2>1, <2>2 DEF Keeps, Holding, Creating
<1>6. CASE \/ Call(c) \/ EndTurn(c) \/ Lookup(c) \/ Begin(c) \/ BeginTouch(c) \/ RunReturns(c) \/ End(c)
           \/ EndTouch(c) \/ Drop(c) \/ Recover(c)
  <2>1. CASE Call(c) \/ EndTurn(c) \/ Lookup(c) \/ Begin(c) \/ BeginTouch(c)
    <3>1. /\ pc[c] \in {"ready", "lookup", "begin", "touch"}
          /\ pc'[c] \in {"ready", "lookup", "begin", "getlock", "run", "touch", "drop"}
      BY <1>1, <2>1 DEF Call, EndTurn, Lookup, Begin, BeginTouch
    <3>2. lock' = lock /\ lockOf' = lockOf
      BY <2>1 DEF Call, EndTurn, Lookup, Begin, BeginTouch, shared, locals
    <3> QED
      BY <3>1, <3>2 DEF Keeps, Holding, Creating
  <2>2. CASE RunReturns(c) \/ End(c) \/ EndTouch(c) \/ Drop(c) \/ Recover(c)
    <3>1. /\ pc[c] \in {"run", "end", "fail", "untouch", "unfail", "drop", "recover"}
          /\ pc'[c] \in {"ready", "lookup", "end", "fail", "untouch", "unfail", "drop", "recover"}
      BY <1>1, <2>2 DEF RunReturns, End, EndTouch, Drop, Recover, Finish
    <3>2. lock' = lock /\ lockOf' = lockOf
      BY <2>2 DEF RunReturns, End, EndTouch, Drop, Recover, shared, locals
    <3> QED
      BY <3>1, <3>2 DEF Keeps, Holding, Creating
  <2> QED
    BY <1>6, <2>1, <2>2
<1> QED
  BY <1>2, <1>3, <1>4, <1>5, <1>6 DEF Continue

LEMMA LockInit == Init => LockInv /\ ClearedFound
<1> SUFFICES ASSUME Init PROVE LockInv /\ ClearedFound
  OBVIOUS
<1>1. \A c \in Calls : pc[c] = "ready" /\ lock[c] = NoLock
  BY DEF Init
<1>2. \A p \in Procs, k \in Keys : lockOf[p][k] = NoLock
  BY DEF Init
<1>3. "ready" \notin Holding \union {"acquire", "clear"}
  BY DEF Holding, Creating
<1> QED
  BY <1>1, <1>2, <1>3 DEF LockInv, LockPhases, LockTable, LockLocal, OneHolder, ClearedFound

LEMMA LockStep == TypeOK /\ LockInv /\ [Next]_vars => LockInv'
<1> SUFFICES ASSUME TypeOK, LockPhases, LockTable, LockLocal, OneHolder, [Next]_vars PROVE LockInv'
  BY DEF LockInv
<1>0. /\ lockOf \in [Procs -> [Keys -> Locks \union {NoLock}]] /\ NoLock \notin Locks
      /\ "acquire" \notin Holding
      /\ \A c \in Calls : Home[c] \in Procs /\ KeyOf[c] \in Keys
  BY NoneAssumption, CallsAssumption DEF TypeOK, Holding, Creating
<1>1. ASSUME NEW c \in Calls, Fetches(c), \A d \in Calls : d # c => UNCHANGED <<pc[d], lock[d]>>
      PROVE  LockInv'
  <2>0. PICK p, k : p = Home[c] /\ k = KeyOf[c]
    OBVIOUS
  <2>1. PICK l \in Locks :
          /\ lock'[c] = l
          /\ lockOf' = [lockOf EXCEPT ![p][k] = l]
          /\ lockOf[p][k] # NoLock => l = lockOf[p][k]
          /\ lockOf[p][k] = NoLock => FreshLock(l)
    BY <1>1, <2>0 DEF Fetches
  <2>2. p \in Procs /\ k \in Keys /\ l # NoLock
    BY <1>0, <2>0
  <2>3. \A q \in Procs, j \in Keys : lockOf'[q][j] = IF q = p /\ j = k THEN l ELSE lockOf[q][j]
    BY <1>0, <2>1, <2>2
  <2>4. /\ \A q \in Procs, j \in Keys : lockOf[q][j] = l => q = p /\ j = k
        /\ \A d \in Calls : lock[d] = l => Home[d] = p /\ KeyOf[d] = k
    <3>1. CASE lockOf[p][k] = NoLock
      BY <2>1, <2>2, <3>1 DEF FreshLock
    <3>2. CASE lockOf[p][k] # NoLock
      BY <2>1, <2>2, <3>2 DEF LockTable
    <3> QED
      BY <3>1, <3>2
  <2>5. pc[c] = "getlock" /\ pc'[c] = "acquire"
    BY <1>1 DEF Fetches
  <2>6. LockPhases'
    BY <1>1, <2>1, <2>2, <2>5 DEF LockPhases
  <2>7. LockTable'
    <3> SUFFICES ASSUME NEW q \in Procs, NEW j \in Keys, lockOf'[q][j] # NoLock
                 PROVE  /\ \A r \in Procs, i \in Keys : lockOf'[r][i] = lockOf'[q][j] => r = q /\ i = j
                        /\ \A d \in Calls : lock'[d] = lockOf'[q][j] => Home[d] = q /\ KeyOf[d] = j
      BY DEF LockTable
    <3>1. CASE q = p /\ j = k
      BY <1>1, <2>0, <2>1, <2>3, <2>4, <3>1
    <3>2. CASE ~(q = p /\ j = k)
      <4>1. lockOf'[q][j] = lockOf[q][j] /\ lockOf[q][j] # l
        BY <2>3, <2>4, <3>2
      <4> QED
        BY <1>1, <2>1, <2>2, <2>3, <4>1 DEF LockTable
    <3> QED
      BY <3>1, <3>2
  <2>8. LockLocal'
    BY <1>1, <2>0, <2>1, <2>4 DEF LockLocal
  <2>9. OneHolder'
    BY <1>0, <1>1, <2>5 DEF OneHolder
  <2> QED
    BY <2>6, <2>7, <2>8, <2>9 DEF LockInv
<1>2. ASSUME NEW c \in Calls, Takes(c), \A d \in Calls : d # c => UNCHANGED <<pc[d], lock[d]>>
      PROVE  LockInv'
  <2>1. lock' = lock \/ \A d \in Calls : lock'[d] = lock[d]
    BY <1>2 DEF Takes
  <2>2. \A d \in Calls : lock'[d] = lock[d]
    BY <2>1
  <2>3. lockOf' = lockOf /\ pc[c] = "acquire" /\ pc'[c] \in Holding
    BY <1>2 DEF Takes
  <2>4. LockPhases'
    BY <1>2, <2>2, <2>3 DEF LockPhases
  <2>5. LockTable' /\ LockLocal'
    BY <2>2, <2>3 DEF LockTable, LockLocal
  <2>6. \A d \in Calls : d # c /\ pc'[d] \in Holding => lock[d] # lock[c]
    BY <1>0, <1>2 DEF Takes, Held
  <2>7. OneHolder'
    BY <1>2, <2>2, <2>6 DEF OneHolder
  <2> QED
    BY <2>4, <2>5, <2>7 DEF LockInv
<1>3. ASSUME NEW c \in Calls, GivesBack(c) \/ Keeps(c), \A d \in Calls : d # c => UNCHANGED <<pc[d], lock[d]>>
      PROVE  LockInv'
  <2>1. /\ lockOf' = lockOf /\ \A d \in Calls : lock'[d] \in {lock[d], NoLock}
        /\ \A d \in Calls : pc'[d] \in Holding => pc[d] \in Holding /\ lock'[d] = lock[d]
    BY <1>3 DEF GivesBack, Keeps
  <2>2. LockPhases'
    BY <1>3 DEF GivesBack, Keeps, LockPhases
  <2>3. LockTable' /\ LockLocal'
    BY <2>1 DEF LockTable, LockLocal
  <2>4. OneHolder'
    BY <2>1 DEF OneHolder
  <2> QED
    BY <2>2, <2>3, <2>4 DEF LockInv
<1>4. CASE ~\E c \in Calls : Call(c) \/ EndTurn(c) \/ Acquire(c) \/ Continue(c)
  <2>1. /\ \A c \in Calls : \/ UNCHANGED <<pc[c], lock[c]>>
                            \/ pc'[c] = "ready" /\ lock'[c] = NoLock
        /\ \A p \in Procs, k \in Keys : lockOf'[p][k] \in {lockOf[p][k], NoLock}
    BY <1>4, BackgroundLocks
  <2>2. "ready" \notin Holding \union {"acquire"}
    BY DEF Holding, Creating
  <2>3. LockPhases'
    BY <2>1, <2>2 DEF LockPhases
  <2>4. LockTable'
    BY <2>1 DEF LockTable
  <2>5. LockLocal' /\ OneHolder'
    BY <2>1, <2>2 DEF LockLocal, OneHolder
  <2> QED
    BY <2>3, <2>4, <2>5 DEF LockInv
<1> QED
  BY <1>1, <1>2, <1>3, <1>4, CallLocks, CallAlone

(* A function on a finite set takes finitely many values.                    *)
LEMMA RangeFinite ==
  ASSUME NEW S, IsFiniteSet(S), NEW f, f = [x \in S |-> f[x]]
  PROVE  \E T : IsFiniteSet(T) /\ \A x \in S : f[x] \in T
<1>1. PICK T : T = {f[x] : x \in S}
  OBVIOUS
<1>2. f \in [S -> T] /\ \A t \in T : \E x \in S : f[x] = t
  BY <1>1
<1>3. f \in Surjection(S, T)
  BY <1>2 DEF Surjection
<1>4. IsFiniteSet(T)
  BY <1>3, FS_Surjection
<1> QED
  BY <1>2, <1>4

(* Lock objects never run out: the table and the calls refer to finitely     *)
(* many.                                                                     *)
LEMMA FreshLockExists ==
  ASSUME TypeOK, IsFiniteSet(Procs), ~IsFiniteSet(Locks)
  PROVE  \E l \in Locks : FreshLock(l)
<1>1. PICK f : f = [x \in Procs \X Keys |-> lockOf[x[1]][x[2]]]
  OBVIOUS
<1>2. PICK A : IsFiniteSet(A) /\ \A c \in Calls : lock[c] \in A
  <2>1. lock = [c \in Calls |-> lock[c]]
    BY DEF TypeOK
  <2> QED
    BY <2>1, CallsFinite, RangeFinite
<1>3. PICK B : IsFiniteSet(B) /\ \A x \in Procs \X Keys : f[x] \in B
  <2>1. IsFiniteSet(Procs \X Keys)
    BY CallsFinite, FS_Product
  <2>2. f = [x \in Procs \X Keys |-> f[x]]
    BY <1>1
  <2> QED
    BY <2>1, <2>2, RangeFinite
<1>4. IsFiniteSet(A \union B)
  BY <1>2, <1>3, FS_Union
<1>5. PICK l \in Locks : l \notin A \union B
  BY <1>4, FS_Subset
<1>6. \A q \in Procs, j \in Keys : lockOf[q][j] \in B
  <2> SUFFICES ASSUME NEW q \in Procs, NEW j \in Keys PROVE lockOf[q][j] \in B
    OBVIOUS
  <2>1. PICK x : x = <<q, j>>
    OBVIOUS
  <2>2. x \in Procs \X Keys /\ x[1] = q /\ x[2] = j
    BY <2>1
  <2> QED
    BY <1>1, <1>3, <2>2
<1> QED
  BY <1>2, <1>5, <1>6 DEF FreshLock

LEMMA GoOn ==
  ASSUME TypeOK, LockInv, IsFiniteSet(Procs), ~IsFiniteSet(Locks)
  PROVE  CallsGoOn
<1> SUFFICES ASSUME NEW c \in Calls, pc[c] # "ready", ~MayGoOn(c)
             PROVE  \E d \in Calls \ {c} : /\ Home[d] = Home[c] /\ KeyOf[d] = KeyOf[c]
                                           /\ lock[d] = lock[c] /\ pc[d] \in Holding /\ MayGoOn(d)
  BY DEF CallsGoOn
<1>1. pc[c] = "acquire" /\ Held(lock[c])
  BY FreshLockExists DEF MayGoOn
<1>2. PICK d \in Calls : lock[d] = lock[c] /\ pc[d] # "acquire"
  BY <1>1 DEF Held
<1>3. lock[c] # NoLock /\ d # c
  BY <1>1, <1>2 DEF LockInv, LockPhases
<1>4. pc[d] \in Holding
  BY <1>2, <1>3 DEF LockInv, LockPhases
<1>5. Home[d] = Home[c] /\ KeyOf[d] = KeyOf[c]
  BY <1>2, <1>3 DEF LockInv, LockLocal
<1>6. pc[d] \notin {"ready", "getlock", "acquire"}
  BY <1>4 DEF Holding, Creating
<1>7. MayGoOn(d)
  BY <1>6 DEF MayGoOn
<1> QED
  BY <1>2, <1>3, <1>4, <1>5, <1>7

(* No tool call is stuck: it can go on, or waits for the creation lock of    *)
(* its own key and process, and the call that holds it can go on.  No lock   *)
(* outlives the creation it was taken for, whatever fails or dies.           *)
THEOREM NoCallStuck ==
  ASSUME IsFiniteSet(Procs), ~IsFiniteSet(Locks)
  PROVE  Spec => []CallsGoOn
<1>1. TypeOK /\ UsesCounted /\ LockInv /\ [Next]_vars => TypeOK' /\ UsesCounted' /\ LockInv'
  BY TypeStep, LockStep
<1>2. TypeOK /\ LockInv => CallsGoOn
  BY GoOn
<1> QED
  BY <1>1, <1>2, InitTyped, LockInit, PTL DEF Spec

(* A creation lock is held by one call at a time, and no call waits for the  *)
(* lock of another key or process, although the reaper forgets locks.        *)
THEOREM CreationLocksExclusive == Spec => [](OneHolder /\ LockLocal)
<1>1. TypeOK /\ UsesCounted /\ LockInv /\ [Next]_vars => TypeOK' /\ UsesCounted' /\ LockInv'
  BY TypeStep, LockStep
<1>2. LockInv => OneHolder /\ LockLocal
  BY DEF LockInv
<1> QED
  BY <1>1, <1>2, InitTyped, LockInit, PTL DEF Spec

(* Every step of a tool call leaves less of it, and no step of another call, *)
(* of the reaper or of a reset sets it back: it ends after at most 44 steps, *)
(* its second attempt included.                                              *)
THEOREM CallsAdvance == Spec => [][NoCallBack]_vars
<1>1. TypeOK /\ UsesCounted /\ ClearedFound /\ [Next]_vars => TypeOK' /\ UsesCounted' /\ ClearedFound'
  BY TypeStep, ClearedStep
<1> QED
  BY <1>1, InitTyped, LockInit, NoCallBackStep, PTL DEF Spec
=============================================================================
