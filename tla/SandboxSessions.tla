--------------------------- MODULE SandboxSessions ---------------------------
(***************************************************************************)
(* SandboxSessionService: the registry of code sandboxes that every        *)
(* backend process keeps in memory, the tool calls that look a sandbox up, *)
(* create, use and recover it, the daemon thread that reaps idle ones, and *)
(* the conversation rows that let another process resume or destroy them.  *)
(*                                                                         *)
(* The registry is guarded by one lock, so a step of a thread is a section *)
(* under that lock, a statement on the database, or a call to the sandbox  *)
(* provider; other threads run between any two steps.  A creation lock for *)
(* each key serialises the callers that miss the registry.                 *)
(***************************************************************************)
EXTENDS Integers, FiniteSets

CONSTANTS Procs,       \* backend processes
          Keys,        \* session keys, one for each conversation
          Calls,       \* tools of a chat turn, each with its own handle
          Home,        \* Home[c] is the process that runs call c
          KeyOf,       \* KeyOf[c] is the session key of its turn
          Boxes,       \* ids of remote sandboxes; an id nobody refers to is reused
          NoBox,       \* no sandbox
          Locks,       \* creation lock objects
          NoLock,      \* no creation lock
          MaxSessions, \* SANDBOX_MAX_CONCURRENT_SESSIONS
          Faults       \* which of "crash", "expire", "reset", "provider" may happen

ASSUME CallsAssumption == Home \in [Calls -> Procs] /\ KeyOf \in [Calls -> Keys]
ASSUME CallsFinite == IsFiniteSet(Calls) /\ IsFiniteSet(Keys)
ASSUME NoneAssumption == NoBox \notin Boxes /\ NoLock \notin Locks
ASSUME MaxSessionsAssumption == MaxSessions \in Nat \ {0}
ASSUME SandboxFaultsAssumption == Faults \subseteq {"crash", "expire", "reset", "provider"}

VARIABLES alive,     \* remote sandboxes that run, and may be billed
          row,       \* conversation row: sandbox id, idle for longer than the TTL, leased
          entry,     \* _sessions
          pending,   \* _pending_creates
          lockOf,    \* _creation_locks
          pc,        \* where a call is
          handle,    \* the handle its tool holds
          found,     \* the sandbox id a step hands to the next
          lock,      \* the creation lock it waits for or holds
          leased,    \* its begin_use succeeded
          retried,   \* it is in its second attempt
          reaper,    \* _reaper_loop
          closer     \* a conversation reset or deletion in progress

locals == <<handle, found, lock, leased, retried>>
vars == <<alive, row, entry, pending, lockOf, pc, locals, reaper, closer>>

BoxOrNone == Boxes \union {NoBox}

NoEntry == [box |-> NoBox, uses |-> 0, idle |-> FALSE]
NoRow == [box |-> NoBox, idle |-> FALSE, leased |-> FALSE]

Creating == {"load", "expire", "clear", "create", "store", "install"}
Phases == Creating \union
  {"ready", "lookup", "getlock", "acquire", "recheck", "refresh", "reserve", "release",
   "begin", "touch", "run", "end", "fail", "untouch", "unfail", "drop", "recover"}

Resting == [at |-> "rest", doomed |-> {}, snap |-> [k \in Keys |-> NoBox], cleared |-> {}]
NotClosing == [at |-> "rest", box |-> NoBox]

TypeOK ==
  /\ alive \subseteq Boxes
  /\ row \in [Keys -> [box : BoxOrNone, idle : BOOLEAN, leased : BOOLEAN]]
  /\ entry \in [Procs -> [Keys -> [box : BoxOrNone, uses : 0 .. Cardinality(Calls), idle : BOOLEAN]]]
  /\ pending \in [Procs -> SUBSET Keys]
  /\ lockOf \in [Procs -> [Keys -> Locks \union {NoLock}]]
  /\ pc \in [Calls -> Phases]
  /\ handle \in [Calls -> BoxOrNone]
  /\ found \in [Calls -> BoxOrNone]
  /\ lock \in [Calls -> Locks \union {NoLock}]
  /\ leased \in [Calls -> BOOLEAN]
  /\ retried \in [Calls -> BOOLEAN]
  /\ reaper \in [Procs -> [at : {"rest", "kill", "rows"}, doomed : SUBSET Boxes,
                           snap : [Keys -> BoxOrNone], cleared : SUBSET Keys]
                    \union [at : {"rowkill"}, key : Keys, doomed : SUBSET Boxes,
                            snap : [Keys -> BoxOrNone], cleared : SUBSET Keys]]
  /\ closer \in [Procs -> {NotClosing}
                    \union [at : {"kill", "clear"}, key : Keys, box : BoxOrNone]]

(* A process may start on rows that earlier processes left. *)
Init ==
  /\ row \in [Keys -> {NoRow} \union [box : Boxes, idle : {FALSE}, leased : BOOLEAN]]
  /\ \A j, k \in Keys : row[j].box = row[k].box => j = k \/ row[j] = NoRow
  /\ alive = {row[k].box : k \in Keys} \ {NoBox}
  /\ entry = [p \in Procs |-> [k \in Keys |-> NoEntry]]
  /\ pending = [p \in Procs |-> {}]
  /\ lockOf = [p \in Procs |-> [k \in Keys |-> NoLock]]
  /\ pc = [c \in Calls |-> "ready"]
  /\ handle = [c \in Calls |-> NoBox]
  /\ found = [c \in Calls |-> NoBox]
  /\ lock = [c \in Calls |-> NoLock]
  /\ leased = [c \in Calls |-> FALSE]
  /\ retried = [c \in Calls |-> FALSE]
  /\ reaper = [p \in Procs |-> Resting]
  /\ closer = [p \in Procs |-> NotClosing]

-----------------------------------------------------------------------------
(* Helpers. *)

Entry(c) == entry[Home[c]][KeyOf[c]]

SetEntry(c, e) == entry' = [entry EXCEPT ![Home[c]][KeyOf[c]] = e]

Registered(p, k) == entry[p][k].box # NoBox

Held(l) == \E c \in Calls : lock[c] = l /\ pc[c] # "acquire"

(* A sandbox id that nothing refers to: as good as one never used. *)
Unused(b) ==
  /\ b \notin alive
  /\ \A k \in Keys : row[k].box # b
  /\ \A p \in Procs :
       /\ \A k \in Keys : entry[p][k].box # b /\ reaper[p].snap[k] # b
       /\ b \notin reaper[p].doomed
       /\ closer[p].box # b
  /\ \A c \in Calls : handle[c] # b /\ found[c] # b

Goto(c, phase) == pc' = [pc EXCEPT ![c] = phase]

(* _persist_sandbox_state: activity now.  All keys of a row are the same. *)
Persist(k, b, lease) ==
  row' = [row EXCEPT ![k] = [box |-> b, idle |-> FALSE, leased |-> lease]]

background == <<reaper, closer>>
shared == <<alive, row, entry, pending, lockOf>>

-----------------------------------------------------------------------------
(* A tool call.  Its handle is resolved on the first call of the turn.      *)

Call(c) ==
  /\ pc[c] = "ready"
  /\ Goto(c, IF handle[c] = NoBox THEN "lookup" ELSE "begin")
  /\ UNCHANGED <<shared, locals, background>>

EndTurn(c) ==
  /\ pc[c] = "ready"
  /\ handle[c] # NoBox
  /\ handle' = [handle EXCEPT ![c] = NoBox]
  /\ UNCHANGED <<shared, pc, found, lock, leased, retried, background>>

-----------------------------------------------------------------------------
(* get_or_create. *)

(* The cache hit touches the sandbox and the row under the lock; a sandbox  *)
(* that turns out dead is dropped in the same section.                      *)
Lookup(c) ==
  /\ pc[c] = "lookup"
  /\ IF Entry(c).box \in alive
     THEN /\ SetEntry(c, [Entry(c) EXCEPT !.idle = FALSE])
          /\ Persist(KeyOf[c], Entry(c).box, FALSE)
          /\ handle' = [handle EXCEPT ![c] = Entry(c).box]
          /\ Goto(c, "begin")
     ELSE /\ SetEntry(c, NoEntry)
          /\ Goto(c, "getlock")
          /\ UNCHANGED <<row, handle>>
  /\ UNCHANGED <<alive, pending, lockOf, found, lock, leased, retried, background>>

(* A new lock object is one that no thread refers to. *)
GetLock(c) ==
  /\ pc[c] = "getlock"
  /\ LET p == Home[c]
         k == KeyOf[c]
     IN \E l \in Locks :
          /\ IF lockOf[p][k] # NoLock
             THEN l = lockOf[p][k]
             ELSE /\ \A d \in Calls : lock[d] # l
                  /\ \A q \in Procs, j \in Keys : lockOf[q][j] # l
          /\ lockOf' = [lockOf EXCEPT ![p][k] = l]
          /\ lock' = [lock EXCEPT ![c] = l]
  /\ Goto(c, "acquire")
  /\ UNCHANGED <<alive, row, entry, pending, handle, found, leased, retried, background>>

(* The lock is taken and the registry is read again. *)
Acquire(c) ==
  /\ pc[c] = "acquire"
  /\ ~Held(lock[c])
  /\ found' = [found EXCEPT ![c] = Entry(c).box]
  /\ Goto(c, IF Entry(c).box = NoBox THEN "reserve" ELSE "recheck")
  /\ UNCHANGED <<shared, handle, lock, leased, retried, background>>

(* The touch, outside the lock; a dead sandbox's key is dropped, whatever   *)
(* entry it has by now.                                                     *)
Recheck(c) ==
  /\ pc[c] = "recheck"
  /\ IF found[c] \in alive
     THEN Goto(c, "refresh") /\ UNCHANGED <<entry, found>>
     ELSE /\ SetEntry(c, NoEntry)
          /\ found' = [found EXCEPT ![c] = NoBox]
          /\ Goto(c, "reserve")
  /\ UNCHANGED <<alive, row, pending, lockOf, handle, lock, leased, retried, background>>

Refresh(c) ==
  /\ pc[c] = "refresh"
  /\ IF Entry(c).box = found[c]
     THEN SetEntry(c, [Entry(c) EXCEPT !.idle = FALSE])
     ELSE UNCHANGED entry
  /\ Persist(KeyOf[c], found[c], FALSE)
  /\ handle' = [handle EXCEPT ![c] = found[c]]
  /\ found' = [found EXCEPT ![c] = NoBox]
  /\ lock' = [lock EXCEPT ![c] = NoLock]
  /\ Goto(c, "begin")
  /\ UNCHANGED <<alive, pending, lockOf, leased, retried, background>>

(* SandboxCapacityError or a failed creation: the tool call fails. *)
GiveUp(c) ==
  /\ lock' = [lock EXCEPT ![c] = NoLock]
  /\ found' = [found EXCEPT ![c] = NoBox]
  /\ retried' = [retried EXCEPT ![c] = FALSE]
  /\ Goto(c, "ready")

Live(p) == {k \in Keys : Registered(p, k)}

(* Variant: the cap counts the registered sessions only. *)
Reserve_IgnoresPending(c) ==
  /\ pc[c] = "reserve"
  /\ LET p == Home[c]
     IN IF Cardinality(Live(p)) >= MaxSessions
        THEN GiveUp(c) /\ UNCHANGED pending
        ELSE /\ pending' = [pending EXCEPT ![p] = @ \union {KeyOf[c]}]
             /\ Goto(c, "load")
             /\ UNCHANGED <<lock, found, retried>>
  /\ UNCHANGED <<alive, row, entry, lockOf, handle, leased, background>>

Reserve(c) ==
  /\ pc[c] = "reserve"
  /\ LET p == Home[c]
     IN IF Cardinality(Live(p)) + Cardinality(pending[p]) >= MaxSessions
        THEN GiveUp(c) /\ UNCHANGED pending
        ELSE /\ pending' = [pending EXCEPT ![p] = @ \union {KeyOf[c]}]
             /\ Goto(c, "load")
             /\ UNCHANGED <<lock, found, retried>>
  /\ UNCHANGED <<alive, row, entry, lockOf, handle, leased, background>>

(* The saved state of the conversation; a recovery passes no conversation.  *)
Load(c) ==
  /\ pc[c] = "load"
  /\ LET saved == IF retried[c] THEN NoRow ELSE row[KeyOf[c]]
     IN /\ found' = [found EXCEPT ![c] = saved.box]
        /\ Goto(c, IF saved.box # NoBox /\ saved.idle /\ ~saved.leased
                   THEN "expire" ELSE "create")
  /\ UNCHANGED <<shared, handle, lock, leased, retried, background>>

(* An idle saved sandbox is destroyed, and its row cleared if that worked.  *)
ExpireSaved(c) ==
  /\ pc[c] = "expire"
  /\ \/ /\ alive' = alive \ {found[c]}
        /\ Goto(c, "clear")
     \/ /\ "provider" \in Faults
        /\ Goto(c, "create")
        /\ UNCHANGED alive
  /\ found' = [found EXCEPT ![c] = NoBox]
  /\ UNCHANGED <<row, entry, pending, lockOf, handle, lock, leased, retried, background>>

ClearSaved(c) ==
  /\ pc[c] = "clear"
  /\ row' = [row EXCEPT ![KeyOf[c]] = NoRow]
  /\ Goto(c, "create")
  /\ UNCHANGED <<alive, entry, pending, lockOf, locals, background>>

(* Resume the saved sandbox, or make a new one: in place of a dead saved    *)
(* one at once, or after a SandboxExpiredError and clearing the row.  A     *)
(* creation that failed or timed out raises; a timed-out one may still      *)
(* bring up a sandbox.                                                      *)
Create(c) ==
  /\ pc[c] = "create"
  /\ \/ /\ found[c] \in alive
        /\ Goto(c, "store")
        /\ UNCHANGED <<alive, found>>
     \/ /\ found[c] \notin alive
        /\ \E b \in Boxes :
             /\ Unused(b)
             /\ alive' = alive \union {b}
             /\ found' = [found EXCEPT ![c] = b]
        /\ Goto(c, "store")
     \/ /\ found[c] \in Boxes \ alive
        /\ found' = [found EXCEPT ![c] = NoBox]
        /\ Goto(c, "clear")
        /\ UNCHANGED alive
     \/ /\ "provider" \in Faults \/ \A b \in Boxes : ~Unused(b)
        /\ \/ UNCHANGED alive
           \/ \E b \in Boxes : Unused(b) /\ alive' = alive \union {b}
        /\ found' = [found EXCEPT ![c] = NoBox]
        /\ Goto(c, "release")
  /\ UNCHANGED <<row, entry, pending, lockOf, handle, lock, leased, retried, background>>

Store(c) ==
  /\ pc[c] = "store"
  /\ Persist(KeyOf[c], found[c], FALSE)
  /\ Goto(c, "install")
  /\ UNCHANGED <<alive, entry, pending, lockOf, locals, background>>

Install(c) ==
  /\ pc[c] = "install"
  /\ SetEntry(c, [box |-> found[c], uses |-> 0, idle |-> FALSE])
  /\ Goto(c, "release")
  /\ UNCHANGED <<alive, row, pending, lockOf, locals, background>>

(* Variant: the reservation is not given back when the creation fails. *)
Release_KeepsReservation(c) ==
  /\ pc[c] = "release"
  /\ IF found[c] = NoBox
     THEN GiveUp(c) /\ UNCHANGED <<pending, handle>>
     ELSE /\ pending' = [pending EXCEPT ![Home[c]] = @ \ {KeyOf[c]}]
          /\ handle' = [handle EXCEPT ![c] = found[c]]
          /\ lock' = [lock EXCEPT ![c] = NoLock]
          /\ found' = [found EXCEPT ![c] = NoBox]
          /\ Goto(c, "begin")
          /\ UNCHANGED retried
  /\ UNCHANGED <<alive, row, entry, lockOf, leased, background>>

(* Variant: the creation lock is not given back with the new sandbox. *)
Release_KeepsLock(c) ==
  /\ pc[c] = "release"
  /\ pending' = [pending EXCEPT ![Home[c]] = @ \ {KeyOf[c]}]
  /\ IF found[c] = NoBox
     THEN GiveUp(c) /\ UNCHANGED handle
     ELSE /\ handle' = [handle EXCEPT ![c] = found[c]]
          /\ found' = [found EXCEPT ![c] = NoBox]
          /\ Goto(c, "begin")
          /\ UNCHANGED <<lock, retried>>
  /\ UNCHANGED <<alive, row, entry, lockOf, leased, background>>

(* The finally blocks: the reservation and the creation lock are released.  *)
Release(c) ==
  /\ pc[c] = "release"
  /\ pending' = [pending EXCEPT ![Home[c]] = @ \ {KeyOf[c]}]
  /\ IF found[c] = NoBox
     THEN GiveUp(c) /\ UNCHANGED handle
     ELSE /\ handle' = [handle EXCEPT ![c] = found[c]]
          /\ lock' = [lock EXCEPT ![c] = NoLock]
          /\ found' = [found EXCEPT ![c] = NoBox]
          /\ Goto(c, "begin")
          /\ UNCHANGED retried
  /\ UNCHANGED <<alive, row, entry, lockOf, leased, background>>

-----------------------------------------------------------------------------
(* Running a command under a lease, and the recovery from an expiry.        *)

(* begin_use; without an entry the command runs without a lease. *)
Begin(c) ==
  /\ pc[c] = "begin"
  /\ IF Entry(c).box = NoBox
     THEN Goto(c, "run") /\ UNCHANGED <<entry, found>>
     ELSE /\ SetEntry(c, [Entry(c) EXCEPT !.uses = @ + 1, !.idle = FALSE])
          /\ found' = [found EXCEPT ![c] = Entry(c).box]
          /\ Goto(c, "touch")
  /\ UNCHANGED <<alive, row, pending, lockOf, handle, lock, leased, retried, background>>

(* The touch and the write of the lease, outside the lock. *)
BeginTouch(c) ==
  /\ pc[c] = "touch"
  /\ IF found[c] \in alive
     THEN /\ Persist(KeyOf[c], found[c], TRUE)
          /\ leased' = [leased EXCEPT ![c] = TRUE]
          /\ Goto(c, "run")
     ELSE Goto(c, "drop") /\ UNCHANGED <<row, leased>>
  /\ found' = [found EXCEPT ![c] = NoBox]
  /\ UNCHANGED <<alive, entry, pending, lockOf, handle, lock, retried, background>>

Finish(c) ==
  /\ Goto(c, "ready")
  /\ retried' = [retried EXCEPT ![c] = FALSE]

(* The command returns, or raises because the tool's sandbox is gone. *)
RunReturns(c) ==
  /\ pc[c] = "run"
  /\ IF leased[c]
     THEN Goto(c, IF handle[c] \in alive THEN "end" ELSE "fail") /\ UNCHANGED retried
     ELSE IF handle[c] \in alive
     THEN Finish(c)
     ELSE Goto(c, "recover") /\ UNCHANGED retried
  /\ UNCHANGED <<shared, handle, found, lock, leased, background>>

(* Variant: a use that ends is not counted down. *)
Less_Forgets(n) == n

Less(n) == IF n = 0 THEN 0 ELSE n - 1

(* end_use looks the key up again: it counts down the entry that is there   *)
(* now, which need not be the one that begin_use counted up.                *)
End(c) ==
  /\ pc[c] \in {"end", "fail"}
  /\ leased' = [leased EXCEPT ![c] = FALSE]
  /\ IF Entry(c).box # NoBox
     THEN /\ SetEntry(c, [Entry(c) EXCEPT !.uses = Less(@), !.idle = FALSE])
          /\ found' = [found EXCEPT ![c] = Entry(c).box]
          /\ Goto(c, IF pc[c] = "end" THEN "untouch" ELSE "unfail")
          /\ UNCHANGED retried
     ELSE /\ IF pc[c] = "end" THEN Finish(c) ELSE Goto(c, "recover") /\ UNCHANGED retried
          /\ UNCHANGED <<entry, found>>
  /\ UNCHANGED <<alive, row, pending, lockOf, handle, lock, background>>

(* The row's lease is cleared even while other calls are still running. *)
EndTouch(c) ==
  /\ pc[c] \in {"untouch", "unfail"}
  /\ IF found[c] \in alive
     THEN /\ Persist(KeyOf[c], found[c], FALSE)
          /\ IF pc[c] = "untouch" THEN Finish(c) ELSE Goto(c, "recover") /\ UNCHANGED retried
     ELSE Goto(c, "drop") /\ UNCHANGED <<row, retried>>
  /\ found' = [found EXCEPT ![c] = NoBox]
  /\ UNCHANGED <<alive, entry, pending, lockOf, handle, lock, leased, background>>

(* evict, before begin_use or end_use raises. *)
Drop(c) ==
  /\ pc[c] = "drop"
  /\ SetEntry(c, NoEntry)
  /\ Goto(c, "recover")
  /\ UNCHANGED <<alive, row, pending, lockOf, locals, background>>

(* The tool caught SandboxExpiredError: evict and get_or_create, once. *)
Recover(c) ==
  /\ pc[c] = "recover"
  /\ IF retried[c]
     THEN Finish(c) /\ UNCHANGED entry
     ELSE /\ SetEntry(c, NoEntry)
          /\ retried' = [retried EXCEPT ![c] = TRUE]
          /\ Goto(c, "lookup")
  /\ UNCHANGED <<alive, row, pending, lockOf, handle, found, lock, leased, background>>

-----------------------------------------------------------------------------
(* The reaper of a process. *)

calls == <<pc, locals>>

Becomes(p, r) == reaper' = [reaper EXCEPT ![p] = r]

(* Variant: the reaper looks at the idle time alone. *)
Stale_IgnoresUses(p, k) == Registered(p, k) /\ entry[p][k].idle

(* An entry's lease ends when its uses do, so the uses decide. *)
Stale(p, k) == Registered(p, k) /\ entry[p][k].idle /\ entry[p][k].uses = 0

ReapEntries(p) ==
  /\ reaper[p].at = "rest"
  /\ Becomes(p, [reaper[p] EXCEPT !.at = "kill",
                   !.doomed = {entry[p][k].box : k \in {j \in Keys : Stale(p, j)}}])
  /\ entry' = [entry EXCEPT ![p] = [k \in Keys |-> IF Stale(p, k) THEN NoEntry ELSE @[k]]]
  /\ UNCHANGED <<alive, row, pending, lockOf, calls, closer>>

(* A destroy that fails is logged and forgotten. *)
ReapKill(p) ==
  /\ reaper[p].at = "kill"
  /\ \E b \in reaper[p].doomed :
       /\ Becomes(p, [reaper[p] EXCEPT !.doomed = @ \ {b}])
       /\ \/ alive' = alive \ {b}
          \/ "provider" \in Faults /\ UNCHANGED alive
  /\ UNCHANGED <<row, entry, pending, lockOf, calls, closer>>

(* Creation locks that are not held at this moment are forgotten.  Then all *)
(* rows with a sandbox are loaded; the idle ones without a lease matter.    *)
(* (No step of another thread depends on both, so one step stands for two.) *)
ReadRows(p) ==
  /\ reaper[p].at = "kill"
  /\ reaper[p].doomed = {}
  /\ lockOf' = [lockOf EXCEPT ![p] =
       [k \in Keys |-> IF ~Registered(p, k) /\ ~Held(@[k]) THEN NoLock ELSE @[k]]]
  /\ Becomes(p, [reaper[p] EXCEPT !.at = "rows",
       !.snap = [k \in Keys |-> IF row[k].idle /\ ~row[k].leased THEN row[k].box ELSE NoBox]])
  /\ UNCHANGED <<alive, row, entry, pending, calls, closer>>

(* Variant: only the keys of this process's registry are looked at. *)
CheckRow_OwnOnly(p, k) ==
  /\ reaper[p].at = "rows"
  /\ reaper[p].snap[k] # NoBox
  /\ IF Registered(p, k)
     THEN Becomes(p, [at |-> "rowkill", key |-> k, doomed |-> {},
                      snap |-> reaper[p].snap, cleared |-> reaper[p].cleared])
     ELSE Becomes(p, [reaper[p] EXCEPT !.snap[k] = NoBox])
  /\ UNCHANGED <<shared, calls, closer>>

(* A key in this process's registry is left to the first pass. *)
CheckRow(p, k) ==
  /\ reaper[p].at = "rows"
  /\ reaper[p].snap[k] # NoBox
  /\ IF Registered(p, k)
     THEN Becomes(p, [reaper[p] EXCEPT !.snap[k] = NoBox])
     ELSE Becomes(p, [at |-> "rowkill", key |-> k, doomed |-> {},
                      snap |-> reaper[p].snap, cleared |-> reaper[p].cleared])
  /\ UNCHANGED <<shared, calls, closer>>

KillRow(p) ==
  /\ reaper[p].at = "rowkill"
  /\ LET k == reaper[p].key
         next(cleared) == [at |-> "rows", doomed |-> {},
                           snap |-> [reaper[p].snap EXCEPT ![k] = NoBox], cleared |-> cleared]
     IN \/ /\ alive' = alive \ {reaper[p].snap[k]}
           /\ Becomes(p, next(reaper[p].cleared \union {k}))
        \/ /\ "provider" \in Faults
           /\ UNCHANGED alive
           /\ Becomes(p, next(reaper[p].cleared))
  /\ UNCHANGED <<row, entry, pending, lockOf, calls, closer>>

(* One commit clears the rows whose sandbox was destroyed, whatever they    *)
(* hold by now.                                                             *)
CommitRows(p) ==
  /\ reaper[p].at = "rows"
  /\ \A k \in Keys : reaper[p].snap[k] = NoBox
  /\ row' = [k \in Keys |-> IF k \in reaper[p].cleared THEN NoRow ELSE row[k]]
  /\ Becomes(p, Resting)
  /\ UNCHANGED <<alive, entry, pending, lockOf, calls, closer>>

-----------------------------------------------------------------------------
(* A conversation is reset or deleted: destroy, then clear the row. *)

CloseEntry(p, k) ==
  /\ "reset" \in Faults
  /\ closer[p] = NotClosing
  /\ closer' = [closer EXCEPT ![p] =
       [at |-> IF Registered(p, k) THEN "kill" ELSE "clear", key |-> k, box |-> entry[p][k].box]]
  /\ entry' = [entry EXCEPT ![p][k] = NoEntry]
  /\ UNCHANGED <<alive, row, pending, lockOf, calls, reaper>>

CloseKill(p) ==
  /\ closer[p].at = "kill"
  /\ \/ alive' = alive \ {closer[p].box}
     \/ "provider" \in Faults /\ UNCHANGED alive
  /\ closer' = [closer EXCEPT ![p] = [at |-> "clear", key |-> closer[p].key, box |-> NoBox]]
  /\ UNCHANGED <<row, entry, pending, lockOf, calls, reaper>>

CloseRow(p) ==
  /\ closer[p].at = "clear"
  /\ row' = [row EXCEPT ![closer[p].key] = NoRow]
  /\ closer' = [closer EXCEPT ![p] = NotClosing]
  /\ UNCHANGED <<alive, entry, pending, lockOf, calls, reaper>>

-----------------------------------------------------------------------------
(* Faults and time. *)

Crash(p) ==
  /\ "crash" \in Faults
  /\ LET here == {c \in Calls : Home[c] = p}
         reset(f, v) == [c \in Calls |-> IF c \in here THEN v ELSE f[c]]
     IN /\ pc' = reset(pc, "ready")
        /\ handle' = reset(handle, NoBox)
        /\ found' = reset(found, NoBox)
        /\ lock' = reset(lock, NoLock)
        /\ leased' = reset(leased, FALSE)
        /\ retried' = reset(retried, FALSE)
  /\ entry' = [entry EXCEPT ![p] = [k \in Keys |-> NoEntry]]
  /\ pending' = [pending EXCEPT ![p] = {}]
  /\ lockOf' = [lockOf EXCEPT ![p] = [k \in Keys |-> NoLock]]
  /\ Becomes(p, Resting)
  /\ closer' = [closer EXCEPT ![p] = NotClosing]
  /\ UNCHANGED <<alive, row>>

(* The provider ends a sandbox on its own. *)
Expire(b) ==
  /\ "expire" \in Faults
  /\ b \in alive
  /\ alive' = alive \ {b}
  /\ UNCHANGED <<row, entry, pending, lockOf, calls, background>>

(* SANDBOX_IDLE_TIMEOUT_S passes. *)
EntryIdles(p, k) ==
  /\ Registered(p, k)
  /\ ~entry[p][k].idle
  /\ entry' = [entry EXCEPT ![p][k].idle = TRUE]
  /\ UNCHANGED <<alive, row, pending, lockOf, calls, background>>

(* The row's activity is written after the entry's, so it ages after it. *)
RowIdles(k) ==
  /\ row[k].box # NoBox
  /\ \A p \in Procs : entry[p][k].box = row[k].box => entry[p][k].idle
  /\ ~row[k].idle
  /\ row' = [row EXCEPT ![k].idle = TRUE]
  /\ UNCHANGED <<alive, entry, pending, lockOf, calls, background>>

LeaseEnds(k) ==
  /\ row[k].leased
  /\ row[k].idle
  /\ row' = [row EXCEPT ![k].leased = FALSE]
  /\ UNCHANGED <<alive, entry, pending, lockOf, calls, background>>

-----------------------------------------------------------------------------
(* A call that has started runs on its own. *)
Continue(c) ==
  \/ Lookup(c) \/ GetLock(c) \/ Recheck(c) \/ Refresh(c) \/ Reserve(c)
  \/ Load(c) \/ ExpireSaved(c) \/ ClearSaved(c) \/ Create(c) \/ Store(c)
  \/ Install(c) \/ Release(c)
  \/ Begin(c) \/ BeginTouch(c) \/ RunReturns(c) \/ End(c) \/ EndTouch(c)
  \/ Drop(c) \/ Recover(c)

Reap(p) ==
  \/ ReapEntries(p) \/ ReapKill(p) \/ ReadRows(p)
  \/ \E k \in Keys : CheckRow(p, k)
  \/ KillRow(p) \/ CommitRows(p)

TimePasses ==
  \E k \in Keys : (\E p \in Procs : EntryIdles(p, k)) \/ RowIdles(k) \/ LeaseEnds(k)

Next ==
  \/ \E c \in Calls : Call(c) \/ EndTurn(c) \/ Acquire(c) \/ Continue(c)
  \/ \E p \in Procs :
       \/ Reap(p)
       \/ \E k \in Keys : CloseEntry(p, k)
       \/ CloseKill(p)
       \/ CloseRow(p)
       \/ Crash(p)
  \/ \E b \in Boxes : Expire(b)
  \/ TimePasses

Spec == Init /\ [][Next]_vars

(* Threads are scheduled, and commands end by their timeout; a creation     *)
(* lock that is free again and again is taken by each of its waiters; the   *)
(* reaper loops for ever; time passes.  Users and faults have no fairness.  *)
Fairness ==
  /\ \A c \in Calls : WF_vars(Continue(c)) /\ SF_vars(Acquire(c))
  /\ \A p \in Procs : WF_vars(Reap(p))
  /\ WF_vars(TimePasses)

FairSpec == Spec /\ Fairness

-----------------------------------------------------------------------------
(* Properties. *)

(* The registered sandboxes and those being created stay within the cap, in *)
(* each process, when the calls have different keys: however they           *)
(* interleave, the check of get_or_create counts what is in flight.         *)
CapRespected ==
  \A p \in Procs :
    Cardinality(Live(p)) + Cardinality({c \in Calls : Home[c] = p /\ pc[c] \in Creating})
      <= MaxSessions

(* A reservation belongs to a call that is still creating: none outlives a  *)
(* creation that failed, timed out or was lost in a crash, so the cap never *)
(* shrinks.                                                                 *)
ReservationHasOwner ==
  \A p \in Procs : \A k \in pending[p] :
    \E c \in Calls : Home[c] = p /\ KeyOf[c] = k /\ pc[c] \in Creating \union {"release"}

(* The docstring of begin_use: the idle reaper never takes the sandbox of a *)
(* command that runs under a lease.  It holds when all calls have different *)
(* keys: a process that once resumed the sandbox of a key reaps its entry   *)
(* although another process runs a command in that sandbox.                 *)
InUseNotReaped ==
  [][\A p \in Procs, c \in Calls :
       pc[c] = "run" /\ leased[c] /\ handle[c] \in reaper'[p].doomed
         => handle[c] \in reaper[p].doomed]_vars

(* Every tool call ends: no creation lock, capacity refusal, expiry or      *)
(* concurrent recovery keeps one waiting for ever.                          *)
CallEnds == \A c \in Calls : (pc[c] # "ready") ~> (pc[c] = "ready")

(* A sandbox that a conversation row names is destroyed, used again, or no  *)
(* longer named: the reaper's second pass gets also those of a process that *)
(* died.                                                                    *)
SavedSandboxHandled ==
  \A k \in Keys, b \in Boxes :
    (row[k].box = b /\ b \in alive)
      ~> (b \notin alive \/ row[k].box # b \/ \E c \in Calls : pc[c] # "ready")

=============================================================================
