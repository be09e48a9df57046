--------------------------- MODULE CrawlPagesProofs ---------------------------
(* The pages of a domain, for any set of pages, texts, sources and links,   *)
(* any requests and any faults: what the rows say, what the silo holds and  *)
(* what the executor has in hand agree.                                     *)
EXTENDS CrawlPages, FiniteSetTheorems, WellFoundedInduction, TLAPS

FetchSteps == {"check", "fetch", "answer", "remove", "index", "save"}
DiscoverSteps == {"manual", "sitemap", "crawl", "expand"}

(* The pages the fetch loop has in hand: the rest of its list and the page  *)
(* it works on.                                                             *)
Hand ==
  CASE exec.at \in FetchSteps -> exec.todo \union {exec.cur}
    [] exec.at = "pick" -> exec.todo
    [] OTHER -> {}

(* The types the argument uses are those of the tables and the fields of    *)
(* the records: what the walk has in its queue may be anything.             *)
IsExec(r) ==
  r \in [at : {r.at}, seen : {r.seen}, todo : {r.todo}, back : {r.back}, queue : {r.queue},
         visited : {r.visited}, depth : {r.depth}, cur : {r.cur}, via : {r.via},
         excluded : {r.excluded}, known : {r.known}, hash : {r.hash}, tag : {r.tag},
         got : {r.got}, ok : {r.ok}, stale : {r.stale}]

IsRow(r) ==
  r \in [status : Status, via : {r.via}, dated : {r.dated}, indexed : {r.indexed},
         hash : {r.hash}, etag : {r.etag}]

Typed ==
  /\ row = [u \in Pages |-> row[u]]
  /\ \A u \in Pages : row[u] = NoRow \/ IsRow(row[u])
  /\ silo = [u \in Pages |-> silo[u]]
  /\ IsExec(exec)
  /\ exec.todo \subseteq Pages
  /\ del \in Pages \union {NoPage}
  /\ Manual \subseteq asked

(* The list was made of rows to fetch; a row that went is marked, and one   *)
(* that came back was asked for.                                            *)
HandInv ==
  /\ exec.at \in FetchSteps => exec.cur \notin exec.todo
  /\ \A u \in Hand :
       /\ u \in Pages
       /\ u \notin exec.stale => row[u] # NoRow
       /\ u \in Disallowed => u \in asked
       /\ row[u] # NoRow /\ row[u].status \in {"REMOVED", "EXCLUDED"} => u \in asked

(* A candidate on its way into the table. *)
CandidateInv ==
  /\ exec.at = "manual" \/ (exec.at = "upsert" /\ exec.back = "manual") => exec.todo \subseteq Manual
  /\ exec.at = "upsert" =>
       /\ exec.back \in DiscoverSteps
       /\ exec.known /\ exec.cur \notin exec.stale => row[exec.cur] # NoRow
       /\ exec.cur \in Disallowed \ asked => exec.excluded

(* A text on its way into the silo. *)
ReplaceInv ==
  /\ exec.at \in {"index", "save"} =>
       exec.got \in Contents /\ (exec.cur \in lost \/ exec.cur \in exec.stale)
  /\ exec.at = "index" => silo[exec.cur] = {}
  /\ exec.at = "save" /\ exec.ok => silo[exec.cur] = {exec.got}

(* A row that replaced a deleted one has no text yet. *)
StaleInv == \A u \in exec.stale \intersect Pages : row[u] # NoRow => row[u].hash = None

ExcludedInv ==
  \A u \in Disallowed \ asked :
    silo[u] = {} /\ (row[u] # NoRow => row[u].status = "EXCLUDED")

OneVersionInv == \A u \in Pages : silo[u] = {} \/ \E c \in Contents : silo[u] = {c}

(* The hash of a row is the silo's text, whatever its status.               *)
HashInv ==
  \A u \in Pages \ lost :
    row[u] # NoRow /\ row[u].hash \in Contents => silo[u] = {row[u].hash}

PagesInv ==
  /\ Typed
  /\ HandInv
  /\ CandidateInv
  /\ ReplaceInv
  /\ StaleInv
  /\ ExcludedInv
  /\ OneVersionInv
  /\ HashInv
-----------------------------------------------------------------------------
LEMMA IdleShape ==
  /\ IsExec(Idle)
  /\ Idle.at = "idle" /\ Idle.todo = {} /\ Idle.stale = {} /\ Idle.ok = FALSE
  BY DEF IsExec, Idle

LEMMA InitPages == Init => PagesInv
  <1> SUFFICES ASSUME Init PROVE PagesInv
    OBVIOUS
  <1>1. IsExec(exec) /\ exec.at = "idle" /\ exec.todo = {} /\ exec.stale = {}
    BY IdleShape DEF Init
  <1>2. Typed
    BY <1>1 DEF Init, Typed
  <1>3. Hand = {}
    BY <1>1 DEF Hand, FetchSteps
  <1>4. \A u \in Pages : row[u] = NoRow /\ silo[u] = {}
    BY DEF Init
  <1>5. HandInv /\ CandidateInv /\ ReplaceInv /\ StaleInv
    BY <1>1, <1>3 DEF HandInv, CandidateInv, ReplaceInv, StaleInv, FetchSteps
  <1>6. ExcludedInv /\ OneVersionInv /\ HashInv
    BY <1>4, SourcesAssumption DEF ExcludedInv, OneVersionInv, HashInv
  <1>7. QED
    BY <1>2, <1>5, <1>6 DEF PagesInv

(* Discovery only moves the executor: it has no page in hand.               *)
LEMMA DiscoverMove ==
  ASSUME PagesInv, UNCHANGED <<web, row, silo, del, asked, lost>>,
         IsExec(exec'), exec'.todo \subseteq Pages,
         exec'.at \notin FetchSteps \union {"pick"},
         exec'.stale \subseteq exec.stale, CandidateInv'
  PROVE  PagesInv'
  <1>1. Typed' /\ StaleInv' /\ ExcludedInv' /\ OneVersionInv' /\ HashInv'
    BY DEF PagesInv, Typed, StaleInv, ExcludedInv, OneVersionInv, HashInv
  <1>2. Hand' = {}
    BY DEF Hand
  <1>3. HandInv' /\ ReplaceInv'
    BY <1>2 DEF HandInv, ReplaceInv, FetchSteps
  <1>4. QED
    BY <1>1, <1>3 DEF PagesInv

LEMMA IdleMove ==
  ASSUME PagesInv, UNCHANGED <<web, row, silo, del, asked, lost>>, exec' = Idle
  PROVE  PagesInv'
  <1>1. IsExec(exec') /\ exec'.todo \subseteq Pages /\ exec'.at = "idle" /\ exec'.stale = {}
    BY IdleShape DEF Steps
  <1>2. CandidateInv'
    BY <1>1 DEF CandidateInv
  <1>3. QED
    BY <1>1, <1>2, DiscoverMove DEF FetchSteps

(* A step of discovery that yields nothing. *)
LEMMA WalkStep ==
  ASSUME PagesInv, Begin \/ ReadSitemap \/ StartCrawl \/ Expand \/ EndCrawl
  PROVE  PagesInv'
  <1>1. IsExec(exec) /\ exec.todo \subseteq Pages
    BY DEF PagesInv, Typed
  <1>2. UNCHANGED <<web, row, silo, del, asked, lost>>
    BY Zenon DEF Begin, ReadSitemap, StartCrawl, Expand, EndCrawl, Moves
  <1>3. CASE Begin
    <2>1. exec' = [Idle EXCEPT !.at = "manual", !.seen = Known, !.todo = Manual \ Known]
      BY <1>3 DEF Begin, Moves
    <2>2. IsExec(exec') /\ exec'.todo \subseteq Pages /\ exec'.at = "manual" /\ exec'.stale = {} /\ exec'.todo \subseteq Manual
      BY <2>1, IdleShape, SourcesAssumption DEF IsExec
    <2>3. CandidateInv'
      BY <2>2 DEF CandidateInv
    <2>4. QED
      BY <1>2, <2>2, <2>3, DiscoverMove DEF FetchSteps
  <1>4. CASE ReadSitemap \/ StartCrawl \/ Expand \/ EndCrawl
    <2>1. IsExec(exec') /\ exec'.todo \subseteq Pages /\ exec'.at \in {"sitemap", "list", "crawl"} /\ exec'.stale = exec.stale
      <3>1. CASE ReadSitemap
        <4>1. PICK locs \in {Sitemap, {}} :
                exec' = [exec EXCEPT !.at = "sitemap", !.todo = locs \ exec.seen]
          BY <3>1, Zenon DEF ReadSitemap, Moves
        <4>2. PICK T : T = locs \ exec.seen
          OBVIOUS
        <4>3. T \in SUBSET Pages
          BY <4>2, SourcesAssumption
        <4>4. exec' = [exec EXCEPT !.at = "sitemap", !.todo = T]
          BY <4>1, <4>2
        <4>5. QED
          BY <1>1, <4>3, <4>4 DEF IsExec
      <3>2. CASE StartCrawl
        <4>1. \/ exec' = [exec EXCEPT !.at = "list"]
              \/ exec' = [exec EXCEPT !.at = "crawl", !.queue = <<<<Seed, 0>>>>]
          BY <3>2 DEF StartCrawl, Moves
        <4>2. QED
          BY <1>1, <4>1 DEF IsExec
      <3>3. CASE EndCrawl
        BY <1>1, <3>3 DEF EndCrawl, Moves, IsExec
      <3>4. CASE Expand
        <4>1. PICK q : exec' = [exec EXCEPT !.at = "crawl", !.queue = q, !.cur = NoPage, !.depth = 0]
          BY <3>4, Zenon DEF Expand, Moves
        <4>2. QED
          BY <1>1, <4>1 DEF IsExec
      <3>5. QED
        BY <1>4, <3>1, <3>2, <3>3, <3>4
    <2>2. CandidateInv'
      BY <2>1 DEF CandidateInv
    <2>3. QED
      BY <1>2, <2>1, <2>2, DiscoverMove DEF FetchSteps
  <1>5. QED
    BY <1>3, <1>4

(* A candidate is yielded: excluded if robots.txt or the filters say so,    *)
(* unless the policy names it.                                              *)
ExcludedIfDue(u, x) == u \in Disallowed \ asked => x = TRUE

LEMMA YieldMove ==
  ASSUME PagesInv, NEW from, NEW u, NEW v, NEW x, Yield(from, u, v, x),
         IsExec(from), from.todo \subseteq Pages, from.back \in DiscoverSteps,
         from.back = "manual" => from.todo \subseteq Manual,
         ExcludedIfDue(u, x)
  PROVE  PagesInv'
  <1>k. PICK k : k = (row[u] # NoRow)
    OBVIOUS
  <1>s. PICK se : se = from.seen \union {u}
    OBVIOUS
  <1>1. exec' = [from EXCEPT !.at = "upsert", !.cur = u, !.via = v, !.excluded = x,
                             !.seen = se, !.known = k, !.stale = {}]
    BY <1>k, <1>s DEF Yield, Moves
  <1>2. UNCHANGED <<web, row, silo, del, asked, lost>>
    BY DEF Yield, Moves
  <1>3. /\ IsExec(exec')
        /\ exec'.at = "upsert" /\ exec'.cur = u /\ exec'.via = v /\ exec'.excluded = x
        /\ exec'.known = k /\ exec'.stale = {}
        /\ exec'.todo = from.todo /\ exec'.back = from.back
    BY <1>1 DEF IsExec
  <1>5. CandidateInv'
    <2>1. exec'.back = "manual" => exec'.todo \subseteq Manual
      BY <1>3
    <2>2. exec'.known /\ exec'.cur \notin exec'.stale => row'[exec'.cur] # NoRow
      BY <1>2, <1>3, <1>k
    <2>3. exec'.cur \in Disallowed \ asked' => exec'.excluded
      BY <1>2, <1>3 DEF ExcludedIfDue
    <2>4. QED
      BY <1>3, <2>1, <2>2, <2>3 DEF CandidateInv
  <1>6. QED
    BY <1>2, <1>3, <1>5, DiscoverMove DEF FetchSteps

LEMMA YieldStep ==
  ASSUME PagesInv, YieldManual \/ YieldSitemap
  PROVE  PagesInv'
  <1>1. IsExec(exec) /\ exec.todo \subseteq Pages /\ Manual \subseteq asked
    BY DEF PagesInv, Typed
  <1>2. CASE YieldManual
    <2>1. PICK u \in exec.todo :
            Yield([exec EXCEPT !.todo = @ \ {u}, !.back = "manual"], u, "MANUAL", FALSE)
      BY <1>2, Zenon DEF YieldManual
    <2>2. exec.at = "manual"
      BY <1>2, Zenon DEF YieldManual
    <2>3. exec.todo \subseteq Manual
      BY <2>2 DEF PagesInv, CandidateInv
    <2>4. PICK T : T = exec.todo \ {u}
      OBVIOUS
    <2>5. PICK from : from = [exec EXCEPT !.todo = T, !.back = "manual"]
      OBVIOUS
    <2>6. Yield(from, u, "MANUAL", FALSE)
      BY <2>1, <2>4, <2>5, Zenon
    <2>7. /\ IsExec(from) /\ from.todo = T /\ from.back = "manual"
      BY <1>1, <2>5 DEF IsExec
    <2>8. T \in SUBSET Pages /\ T \subseteq Manual /\ u \in asked
      BY <1>1, <2>3, <2>4
    <2>9. "manual" \in DiscoverSteps
      BY DEF DiscoverSteps
    <2>10. QED
      BY <1>1, <2>6, <2>7, <2>8, <2>9, YieldMove DEF ExcludedIfDue
  <1>3. CASE YieldSitemap
    <2>1. PICK u \in exec.todo :
            Yield([exec EXCEPT !.todo = @ \ {u}, !.back = "sitemap"],
                  u, "SITEMAP", u \in Disallowed)
      BY <1>3, Zenon DEF YieldSitemap
    <2>2. PICK T : T = exec.todo \ {u}
      OBVIOUS
    <2>3. PICK x : x = (u \in Disallowed)
      OBVIOUS
    <2>4. PICK from : from = [exec EXCEPT !.todo = T, !.back = "sitemap"]
      OBVIOUS
    <2>5. Yield(from, u, "SITEMAP", x)
      BY <2>1, <2>2, <2>3, <2>4, Zenon
    <2>6. /\ IsExec(from) /\ from.todo = T /\ from.back = "sitemap"
      BY <1>1, <2>4 DEF IsExec
    <2>7. T \in SUBSET Pages /\ ExcludedIfDue(u, x)
      BY <1>1, <2>2, <2>3 DEF ExcludedIfDue
    <2>8. "sitemap" \in DiscoverSteps
      BY DEF DiscoverSteps
    <2>9. QED
      BY <1>1, <2>5, <2>6, <2>7, <2>8, YieldMove
  <1>4. QED
    BY <1>2, <1>3

LEMMA VisitStep ==
  ASSUME PagesInv, Visit
  PROVE  PagesInv'
  <1>1. IsExec(exec) /\ exec.todo \subseteq Pages /\ exec.at = "crawl"
    BY DEF PagesInv, Typed, Visit
  <1>2. UNCHANGED <<web, row, silo, del, asked, lost>>
    BY Zenon DEF Visit, Yield, Moves
  <1> PICK u : u = Head(exec.queue)[1]
    OBVIOUS
  <1> PICK d : d = Head(exec.queue)[2]
    OBVIOUS
  <1> PICK q : q = Tail(exec.queue)
    OBVIOUS
  <1> PICK vs : vs = exec.visited \union {u}
    OBVIOUS
  <1> PICK b : b = IF u \in Disallowed THEN "crawl" ELSE "expand"
    OBVIOUS
  <1> PICK c : c = IF b = "expand" THEN u ELSE exec.cur
    OBVIOUS
  <1> PICK x : x = (u \in Disallowed)
    OBVIOUS
  <1> PICK from : from = [exec EXCEPT !.queue = q, !.visited = vs, !.depth = d, !.back = b]
    OBVIOUS
  <1>3. b \in {"crawl", "expand"} /\ ExcludedIfDue(u, x)
    BY DEF ExcludedIfDue
  <1>4. \/ exec' = [exec EXCEPT !.queue = q]
        \/ exec' = [exec EXCEPT !.queue = q, !.visited = vs, !.depth = d, !.at = b, !.cur = c]
        \/ Yield(from, u, "CRAWL", x)
    BY Zenon DEF Visit, Moves
  <1>5. CASE exec' = [exec EXCEPT !.queue = q]
    <2>1. IsExec(exec') /\ exec'.todo \subseteq Pages /\ exec'.at = "crawl" /\ exec'.stale = exec.stale
      BY <1>1, <1>5 DEF IsExec
    <2>2. CandidateInv'
      BY <2>1 DEF CandidateInv
    <2>3. QED
      BY <1>2, <2>1, <2>2, DiscoverMove DEF FetchSteps
  <1>6. CASE exec' = [exec EXCEPT !.queue = q, !.visited = vs, !.depth = d, !.at = b, !.cur = c]
    <2>1. IsExec(exec') /\ exec'.todo \subseteq Pages /\ exec'.at = b /\ exec'.stale = exec.stale
      BY <1>1, <1>3, <1>6 DEF IsExec
    <2>2. CandidateInv'
      BY <1>3, <2>1 DEF CandidateInv
    <2>3. QED
      BY <1>2, <1>3, <2>1, <2>2, DiscoverMove DEF FetchSteps
  <1>7. CASE Yield(from, u, "CRAWL", x)
    <2>1. /\ IsExec(from) /\ from.todo = exec.todo /\ from.back = b
      BY <1>1 DEF IsExec
    <2>2. b \in DiscoverSteps /\ b # "manual"
      BY <1>3 DEF DiscoverSteps
    <2>3. QED
      BY <1>1, <1>3, <1>7, <2>1, <2>2, YieldMove
  <1>8. QED
    BY <1>4, <1>5, <1>6, <1>7
-----------------------------------------------------------------------------
(* What a step may do to the rows, whoever takes it: the two properties of  *)
(* steps.                                                                   *)
Revived(u) ==
  row[u].status \in {"REMOVED", "EXCLUDED"}
    => row'[u].status \in {row[u].status, "EXCLUDED"} \/ u \in asked'
KeepsManual(u) == row[u].via = "MANUAL" => row'[u].via = "MANUAL"
RowSteps == \A u \in Pages : row[u] # NoRow /\ row'[u] # NoRow => Revived(u) /\ KeepsManual(u)

LEMMA SameRows ==
  ASSUME row' = row
  PROVE  RowSteps
  BY DEF RowSteps, Revived, KeepsManual

(* One row is written. *)
Writes(u, new) ==
  /\ row' = [v \in Pages |-> row'[v]]
  /\ \A v \in Pages : row'[v] = NoRow \/ IsRow(row'[v])
  /\ \A v \in Pages \ {u} : row'[v] = row[v]
  /\ u \in Pages => row'[u] = new

LEMMA RowWritten ==
  ASSUME Typed, NEW u, NEW new, row' = [row EXCEPT ![u] = new],
         u \in Pages => new = NoRow \/ IsRow(new)
  PROVE  Writes(u, new)
  <1>1. row = [v \in Pages |-> row[v]] /\ \A v \in Pages : row[v] = NoRow \/ IsRow(row[v])
    BY DEF Typed
  <1>2. /\ row' = [v \in Pages |-> row'[v]]
        /\ \A v \in Pages : row'[v] = IF v = u THEN new ELSE row[v]
    BY <1>1
  <1>3. QED
    BY <1>1, <1>2, Zenon DEF Writes

LEMMA NoRowShape == \A r : IsRow(r) => r # NoRow
  BY DEF IsRow, NoRow, Status

(* The loop writes the row of its page and goes to the next, unless the row *)
(* was deleted under its session.                                           *)
LEMMA CommitMove ==
  ASSUME PagesInv, exec.at \in FetchSteps, NEW new, Commits(new),
         lost' = lost \/ (Holds(exec.cur) /\ lost' = lost \ {exec.cur}),
         Holds(exec.cur) =>
           /\ IsRow(new) /\ new.via = row[exec.cur].via
           /\ exec.cur \notin lost' /\ new.hash \in Contents => silo[exec.cur] = {new.hash}
  PROVE  PagesInv' /\ RowSteps
  <1>1. UNCHANGED <<web, silo, del, asked>>
    BY Zenon DEF Commits
  <1>2. CASE ~Holds(exec.cur)
    <2>1. exec' = Idle /\ row' = row /\ lost' = lost
      BY <1>2, Zenon DEF Commits
    <2>2. QED
      BY <1>1, <2>1, IdleMove, SameRows
  <1>3. CASE Holds(exec.cur)
    <2>1. exec' = [Idle EXCEPT !.at = "pick", !.todo = exec.todo, !.stale = exec.stale]
      BY <1>3, Zenon DEF Commits
    <2>2. row' = [row EXCEPT ![exec.cur] = new]
      BY <1>3, Zenon DEF Commits
    <2>3. Typed /\ HandInv /\ StaleInv /\ ExcludedInv /\ OneVersionInv /\ HashInv
      BY DEF PagesInv
    <2>4. /\ IsExec(exec') /\ exec'.at = "pick" /\ exec'.todo = exec.todo
          /\ exec'.stale = exec.stale
      BY <2>1, IdleShape DEF IsExec
    <2>5. Writes(exec.cur, new)
      BY <1>3, <2>2, <2>3, RowWritten
    <2>6. /\ exec.cur \in Pages /\ exec.cur \notin exec.todo /\ exec.cur \notin exec.stale
          /\ row[exec.cur] # NoRow
          /\ exec.cur \in Disallowed => exec.cur \in asked
          /\ row[exec.cur].status \in {"REMOVED", "EXCLUDED"} => exec.cur \in asked
      <3>1. exec.cur \in Hand
        BY DEF Hand, FetchSteps
      <3>2. exec.cur \notin exec.stale
        BY <1>3 DEF Holds
      <3>3. QED
        BY <2>3, <3>1, <3>2 DEF HandInv
    <2>7. Typed'
      BY <1>1, <2>3, <2>4, <2>5 DEF Typed, Writes
    <2>8. HandInv'
      <3>1. Hand' = exec.todo /\ exec.todo \subseteq Hand
        BY <2>4 DEF Hand, FetchSteps
      <3>2. \A v \in exec.todo : row'[v] = row[v]
        BY <2>3, <2>5, <2>6 DEF Writes, Typed
      <3>3. QED
        BY <1>1, <2>3, <2>4, <3>1, <3>2 DEF HandInv, FetchSteps
    <2>9. CandidateInv' /\ ReplaceInv'
      BY <2>4 DEF CandidateInv, ReplaceInv
    <2>10. StaleInv'
      BY <2>3, <2>4, <2>5, <2>6 DEF StaleInv, Writes
    <2>11. ExcludedInv'
      BY <1>1, <2>3, <2>5, <2>6, SourcesAssumption DEF ExcludedInv, Writes
    <2>12. OneVersionInv'
      BY <1>1, <2>3 DEF OneVersionInv
    <2>13. HashInv'
      <3>1. ASSUME NEW v \in Pages \ lost', row'[v] # NoRow, row'[v].hash \in Contents
            PROVE  silo'[v] = {row'[v].hash}
        <4>1. CASE v = exec.cur
          BY <1>1, <1>3, <2>5, <3>1, <4>1 DEF Writes
        <4>2. CASE v # exec.cur
          BY <1>1, <2>3, <2>5, <3>1, <4>2 DEF Writes, HashInv
        <4>3. QED
          BY <4>1, <4>2
      <3>2. QED
        BY <3>1 DEF HashInv
    <2>14. RowSteps
      BY <1>1, <1>3, <2>5, <2>6 DEF RowSteps, Revived, KeepsManual, Writes
    <2>15. QED
      BY <2>7, <2>8, <2>9, <2>10, <2>11, <2>12, <2>13, <2>14 DEF PagesInv
  <1>4. QED
    BY <1>2, <1>3

LEMMA PickStep ==
  ASSUME PagesInv, Pick
  PROVE  PagesInv' /\ RowSteps
  <1>1. exec.at = "pick" /\ UNCHANGED <<web, silo, del, asked, lost>>
    BY Zenon DEF Pick, Abandon
  <1>2. PICK u \in exec.todo :
          IF Holds(u)
          THEN /\ row' = [row EXCEPT ![u].status = "CRAWLING"]
               /\ exec' = [exec EXCEPT !.at = "check", !.cur = u, !.todo = @ \ {u}]
          ELSE Abandon
    BY Zenon DEF Pick
  <1>3. CASE ~Holds(u)
    BY <1>2, <1>3, IdleMove, SameRows DEF Abandon
  <1>4. CASE Holds(u)
    <2>1. Typed /\ HandInv /\ StaleInv /\ ExcludedInv /\ OneVersionInv /\ HashInv
      BY DEF PagesInv
    <2>2. u \in Hand /\ Hand = exec.todo
      BY <1>1 DEF Hand, FetchSteps
    <2>3. /\ u \in Pages /\ u \notin exec.stale
          /\ row[u] # NoRow
          /\ u \in Disallowed => u \in asked
          /\ row[u].status \in {"REMOVED", "EXCLUDED"} => u \in asked
      BY <1>4, <2>1, <2>2 DEF HandInv, Holds
    <2>4. IsRow(row[u])
      BY <2>1, <2>3 DEF Typed
    <2>5. PICK T : T = exec.todo \ {u}
      OBVIOUS
    <2>6. exec' = [exec EXCEPT !.at = "check", !.cur = u, !.todo = T]
      BY <1>2, <1>4, <2>5
    <2>7. IsExec(exec)
      BY <2>1 DEF Typed
    <2>8. /\ IsExec(exec') /\ exec'.at = "check" /\ exec'.cur = u /\ exec'.todo = T
          /\ exec'.stale = exec.stale
      BY <2>6, <2>7 DEF IsExec
    <2>9. PICK new : new = [row[u] EXCEPT !.status = "CRAWLING"]
      OBVIOUS
    <2>10. IsRow(new) /\ new.status = "CRAWLING" /\ new.hash = row[u].hash /\ new.via = row[u].via
      BY <2>4, <2>9 DEF IsRow, Status
    <2>11. row' = [row EXCEPT ![u] = new]
      BY <1>2, <1>4, <2>9
    <2>12. Writes(u, new)
      BY <2>1, <2>10, <2>11, RowWritten
    <2>13. Typed'
      BY <1>1, <2>1, <2>5, <2>8, <2>12 DEF Typed, Writes
    <2>14. HandInv'
      <3>1. Hand' = Hand
        BY <2>2, <2>5, <2>8 DEF Hand, FetchSteps
      <3>2. row'[u] # NoRow /\ row'[u].status \notin {"REMOVED", "EXCLUDED"}
        BY <2>3, <2>10, <2>12, NoRowShape DEF Writes
      <3>3. \A v \in Hand \ {u} : v \in Pages /\ row'[v] = row[v]
        BY <2>1, <2>12 DEF Writes, HandInv
      <3>4. exec'.cur \notin exec'.todo
        BY <2>5, <2>8
      <3>5. QED
        BY <1>1, <2>1, <2>3, <2>8, <3>1, <3>2, <3>3, <3>4 DEF HandInv
    <2>15. CandidateInv' /\ ReplaceInv'
      BY <2>8 DEF CandidateInv, ReplaceInv
    <2>16. StaleInv'
      BY <2>1, <2>3, <2>8, <2>12 DEF StaleInv, Writes
    <2>17. ExcludedInv'
      BY <1>1, <2>1, <2>3, <2>12, SourcesAssumption DEF ExcludedInv, Writes
    <2>18. OneVersionInv'
      BY <1>1, <2>1 DEF OneVersionInv
    <2>19. HashInv'
      BY <1>1, <2>1, <2>3, <2>10, <2>12 DEF HashInv, Writes
    <2>20. RowSteps
      BY <1>1, <2>3, <2>10, <2>12 DEF RowSteps, Revived, KeepsManual, Writes
    <2>21. QED
      BY <2>13, <2>14, <2>15, <2>16, <2>17, <2>18, <2>19, <2>20 DEF PagesInv
  <1>5. QED
    BY <1>3, <1>4

(* The loop makes its list, or comes to the end of it. *)
LEMMA ListStep ==
  ASSUME PagesInv, List
  PROVE  PagesInv' /\ RowSteps
  <1>1. UNCHANGED <<web, row, silo, del, asked, lost>>
    BY Zenon DEF List, Moves
  <1>2. exec' = [Idle EXCEPT !.at = "pick", !.todo = Fetchable]
    BY Zenon DEF List, Moves
  <1>3. /\ IsExec(exec') /\ exec'.at = "pick" /\ exec'.todo = Fetchable
        /\ exec'.stale = {}
    BY <1>2, IdleShape DEF IsExec
  <1>4. \A u \in Fetchable :
          u \in Pages /\ row[u] # NoRow /\ row[u].status \notin {"REMOVED", "EXCLUDED"}
    BY DEF Fetchable, Known
  <1>5. Typed' /\ StaleInv' /\ ExcludedInv' /\ OneVersionInv' /\ HashInv'
    BY <1>1, <1>3, <1>4 DEF PagesInv, Typed, StaleInv, ExcludedInv, OneVersionInv, HashInv
  <1>6. CandidateInv' /\ ReplaceInv'
    BY <1>3 DEF CandidateInv, ReplaceInv
  <1>7. HandInv'
    <2>1. Hand' = Fetchable
      BY <1>3 DEF Hand, FetchSteps
    <2>2. \A u \in Fetchable : u \in Disallowed => u \in asked
      BY <1>4 DEF PagesInv, ExcludedInv
    <2>3. QED
      BY <1>1, <1>3, <1>4, <2>1, <2>2 DEF HandInv, FetchSteps
  <1>8. QED
    BY <1>1, <1>5, <1>6, <1>7, SameRows DEF PagesInv

LEMMA FinishStep ==
  ASSUME PagesInv, Finish
  PROVE  PagesInv' /\ RowSteps
  <1>1. exec' = Idle /\ UNCHANGED <<web, row, silo, del, asked, lost>>
    BY Zenon DEF Finish, Moves
  <1>2. QED
    BY <1>1, IdleMove, SameRows

(* A step on the page in hand that leaves its row alone. *)
LEMMA LoopMove ==
  ASSUME PagesInv, UNCHANGED <<row, del, asked>>,
         exec.at \in FetchSteps, exec'.at \in FetchSteps,
         IsExec(exec'), exec'.todo = exec.todo, exec'.cur = exec.cur, exec'.stale = exec.stale,
         lost \subseteq lost', ReplaceInv',
         \/ silo' = silo
         \/ /\ exec.cur \in lost' \union exec.stale
            /\ \E S \in {{}} \union {{c} : c \in Contents} : silo' = [silo EXCEPT ![exec.cur] = S]
  PROVE  PagesInv' /\ RowSteps
  <1>1. Typed /\ HandInv /\ StaleInv /\ ExcludedInv /\ OneVersionInv /\ HashInv
    BY DEF PagesInv
  <1>2. Hand' = Hand /\ exec.cur \in Hand
    BY DEF Hand, FetchSteps
  <1>3. exec.cur \in Pages /\ (exec.cur \in Disallowed => exec.cur \in asked)
    BY <1>1, <1>2 DEF HandInv
  <1>4. /\ silo' = [v \in Pages |-> silo'[v]]
        /\ \A v \in Pages \ {exec.cur} : silo'[v] = silo[v]
        /\ silo'[exec.cur] = {} \/ \E c \in Contents : silo'[exec.cur] = {c}
        /\ silo' = silo \/ exec.cur \in lost' \union exec.stale
    <2>1. silo = [v \in Pages |-> silo[v]]
      BY <1>1 DEF Typed
    <2>2. CASE silo' = silo
      BY <1>1, <1>3, <2>1, <2>2 DEF OneVersionInv
    <2>3. CASE /\ exec.cur \in lost' \union exec.stale
               /\ \E S \in {{}} \union {{c} : c \in Contents} : silo' = [silo EXCEPT ![exec.cur] = S]
      BY <1>3, <2>1, <2>3
    <2>4. QED
      BY <2>2, <2>3
  <1>5. Typed'
    BY <1>1, <1>4 DEF Typed
  <1>6. HandInv'
    BY <1>1, <1>2 DEF HandInv
  <1>7. CandidateInv'
    BY DEF CandidateInv, FetchSteps
  <1>8. StaleInv'
    BY <1>1 DEF StaleInv
  <1>9. ExcludedInv'
    BY <1>1, <1>3, <1>4, SourcesAssumption DEF ExcludedInv
  <1>10. OneVersionInv'
    BY <1>1, <1>4 DEF OneVersionInv
  <1>11. HashInv'
    <2>1. ASSUME NEW v \in Pages \ lost', row[v] # NoRow, row[v].hash \in Contents
          PROVE  silo'[v] = silo[v]
      BY <1>1, <1>4, <2>1, ContentsAssumption DEF StaleInv
    <2>2. QED
      BY <1>1, <2>1 DEF HashInv
  <1>12. QED
    BY <1>5, <1>6, <1>7, <1>8, <1>9, <1>10, <1>11, SameRows DEF PagesInv

(* The pre-check closes the page or goes on to fetch it. *)
LEMMA PreCheckStep ==
  ASSUME PagesInv, PreCheck
  PROVE  PagesInv' /\ RowSteps
  <1> PICK r : r = row[exec.cur]
    OBVIOUS
  <1>1. exec.at = "check" /\ exec.at \in FetchSteps
    BY Zenon DEF PreCheck, FetchSteps
  <1>2. \/ Abandon
        \/ Holds(exec.cur) /\ Commits([r EXCEPT !.status = "INDEXED"]) /\ UNCHANGED lost
        \/ Moves([exec EXCEPT !.at = "fetch", !.tag = r.etag, !.hash = r.hash])
    BY Zenon DEF PreCheck
  <1>3. CASE Abandon
    BY <1>3, IdleMove, SameRows DEF Abandon
  <1>4. CASE Holds(exec.cur) /\ Commits([r EXCEPT !.status = "INDEXED"]) /\ UNCHANGED lost
    <2>1. Typed /\ HandInv /\ HashInv
      BY DEF PagesInv
    <2>2. exec.cur \in Hand
      BY <1>1 DEF Hand
    <2>3. exec.cur \in Pages /\ r # NoRow
      BY <1>4, <2>1, <2>2 DEF HandInv, Holds
    <2>4. IsRow(r)
      BY <2>1, <2>3 DEF Typed
    <2>5. PICK new : new = [r EXCEPT !.status = "INDEXED"]
      OBVIOUS
    <2>6. IsRow(new) /\ new.via = r.via /\ new.hash = r.hash
      BY <2>4, <2>5 DEF IsRow, Status
    <2>7. exec.cur \notin lost' /\ new.hash \in Contents => silo[exec.cur] = {new.hash}
      BY <1>4, <2>1, <2>3, <2>6 DEF HashInv
    <2>8. Commits(new) /\ lost' = lost
      BY <1>4, <2>5, Zenon
    <2>9. QED
      BY <1>1, <2>6, <2>7, <2>8, CommitMove
  <1>5. CASE Moves([exec EXCEPT !.at = "fetch", !.tag = r.etag, !.hash = r.hash])
    <2>1. IsExec(exec)
      BY DEF PagesInv, Typed
    <2>2. /\ exec' = [exec EXCEPT !.at = "fetch", !.tag = r.etag, !.hash = r.hash]
          /\ UNCHANGED <<web, row, silo, del, asked, lost>>
      BY <1>5, Zenon DEF Moves
    <2>3. /\ IsExec(exec') /\ exec'.at = "fetch" /\ exec'.todo = exec.todo
          /\ exec'.cur = exec.cur /\ exec'.stale = exec.stale
      BY <2>1, <2>2 DEF IsExec
    <2>4. ReplaceInv' /\ exec'.at \in FetchSteps
      BY <2>3 DEF ReplaceInv, FetchSteps
    <2>5. QED
      BY <1>1, <2>2, <2>3, <2>4, LoopMove
  <1>6. QED
    BY <1>2, <1>3, <1>4, <1>5

LEMMA FetchStep ==
  ASSUME PagesInv, Fetch
  PROVE  PagesInv' /\ RowSteps
  <1>1. exec.at = "fetch" /\ UNCHANGED <<web, row, silo, del, asked, lost>>
    BY Zenon DEF Fetch, Moves
  <1>2. PICK a : exec' = [exec EXCEPT !.at = "answer", !.got = a]
    BY Zenon DEF Fetch, Moves
  <1>3. IsExec(exec)
    BY DEF PagesInv, Typed
  <1>4. /\ IsExec(exec') /\ exec'.at = "answer" /\ exec'.todo = exec.todo
        /\ exec'.cur = exec.cur /\ exec'.stale = exec.stale
    BY <1>2, <1>3 DEF IsExec
  <1>5. ReplaceInv' /\ exec.at \in FetchSteps /\ exec'.at \in FetchSteps
    BY <1>1, <1>4 DEF ReplaceInv, FetchSteps
  <1>6. QED
    BY <1>1, <1>4, <1>5, LoopMove

(* What the loop knows of the page it is about to commit. *)
LEMMA RowInHand ==
  ASSUME PagesInv, exec.at \in FetchSteps, Holds(exec.cur)
  PROVE  /\ exec.cur \in Pages /\ IsRow(row[exec.cur])
         /\ exec.cur \notin lost /\ row[exec.cur].hash \in Contents
              => silo[exec.cur] = {row[exec.cur].hash}
  <1>1. Typed /\ HandInv /\ HashInv
    BY DEF PagesInv
  <1>2. exec.cur \in Hand
    BY DEF Hand, FetchSteps
  <1>3. exec.cur \in Pages /\ row[exec.cur] # NoRow
    BY <1>1, <1>2 DEF HandInv, Holds
  <1>4. QED
    BY <1>1, <1>3 DEF Typed, HashInv

LEMMA SettledRow ==
  ASSUME NEW r, IsRow(r)
  PROVE  IsRow(Settled(r)) /\ Settled(r).via = r.via /\ Settled(r).hash \in {r.hash, "blank"}
  <1> PICK t : t = Tag
    OBVIOUS
  <1> PICK e : e = IF Tag = None THEN r.etag ELSE Tag
    OBVIOUS
  <1>1. \/ Settled(r) = [r EXCEPT !.status = "INDEXED"]
        \/ Settled(r) = [r EXCEPT !.status = "INDEXED", !.etag = e]
        \/ Settled(r) = [r EXCEPT !.status = "FAILED"]
        \/ Settled(r) = [r EXCEPT !.status = "INDEXED", !.hash = "blank", !.etag = t,
                                  !.indexed = TRUE]
        \/ Settled(r) = r
    BY DEF Settled
  <1>2. QED
    BY <1>1 DEF IsRow, Status

LEMMA SettleStep ==
  ASSUME PagesInv, Settle
  PROVE  PagesInv' /\ RowSteps
  <1>1. /\ exec.at \in FetchSteps /\ lost' = lost
        /\ Commits(Settled(row[exec.cur]))
    BY Zenon DEF Settle, FetchSteps
  <1>2. ASSUME Holds(exec.cur)
        PROVE  LET new == Settled(row[exec.cur]) IN
               /\ IsRow(new) /\ new.via = row[exec.cur].via
               /\ exec.cur \notin lost' /\ new.hash \in Contents => silo[exec.cur] = {new.hash}
    BY <1>1, <1>2, RowInHand, SettledRow, ContentsAssumption DEF Other
  <1>3. QED
    BY <1>1, <1>2, CommitMove

LEMMA RemovedStep ==
  ASSUME PagesInv, Removed
  PROVE  PagesInv' /\ RowSteps
  <1> PICK new : new = [row[exec.cur] EXCEPT !.status = "REMOVED"]
    OBVIOUS
  <1>1. exec.at \in FetchSteps /\ lost' = lost /\ Commits(new)
    BY Zenon DEF Removed, FetchSteps
  <1>2. IsRow(row[exec.cur]) =>
          IsRow(new) /\ new.via = row[exec.cur].via /\ new.hash = row[exec.cur].hash
    BY DEF IsRow, Status
  <1>3. QED
    BY <1>1, <1>2, RowInHand, CommitMove

(* The hash is stored with the text: unless the replacement failed, the     *)
(* silo has it.                                                             *)
LEMMA SaveStep ==
  ASSUME PagesInv, Save
  PROVE  PagesInv' /\ RowSteps
  <1> PICK t : t = Tag
    OBVIOUS
  <1> PICK new : new = [row[exec.cur] EXCEPT !.status = "INDEXED", !.hash = exec.got,
                          !.etag = t, !.indexed = TRUE]
    OBVIOUS
  <1>1. exec.at = "save" /\ Commits(new)
    BY Zenon DEF Save
  <1>2. lost' = IF exec.ok /\ Holds(exec.cur) THEN lost \ {exec.cur} ELSE lost
    BY Zenon DEF Save
  <1>3. IsRow(row[exec.cur]) =>
          IsRow(new) /\ new.via = row[exec.cur].via /\ new.hash = exec.got
    BY DEF IsRow, Status
  <1>4. /\ exec.cur \in lost \/ exec.cur \in exec.stale
        /\ exec.ok => silo[exec.cur] = {exec.got}
    BY <1>1 DEF PagesInv, ReplaceInv
  <1>5. Holds(exec.cur) /\ exec.cur \notin lost' => silo[exec.cur] = {exec.got}
    BY <1>2, <1>4 DEF Holds
  <1>6. exec.at \in FetchSteps
    BY <1>1 DEF FetchSteps
  <1>7. lost' = lost \/ (Holds(exec.cur) /\ lost' = lost \ {exec.cur})
    BY <1>2
  <1>8. QED
    BY <1>1, <1>3, <1>5, <1>6, <1>7, RowInHand, CommitMove

(* The steps between fetch and save write the silo. *)
LEMMA SiloStep ==
  ASSUME PagesInv, Remove \/ Replace \/ Index
  PROVE  PagesInv' /\ RowSteps
  <1>1. IsExec(exec)
    BY DEF PagesInv, Typed
  <1>2. UNCHANGED <<row, del, asked>>
    BY Zenon DEF Remove, Replace, Index
  <1>3. silo = [v \in Pages |-> silo[v]]
    BY DEF PagesInv, Typed
  <1>p. exec.at \in FetchSteps
    BY Zenon DEF Remove, Replace, Index, FetchSteps
  <1>c. exec.cur \in Pages
    <2>1. exec.cur \in Hand
      BY <1>p DEF Hand, FetchSteps
    <2>2. QED
      BY <2>1 DEF PagesInv, HandInv
  <1>4. CASE Remove
    <2>1. exec' = [exec EXCEPT !.at = "remove"]
      BY <1>4, Zenon DEF Remove
    <2>2. \/ silo' = [silo EXCEPT ![exec.cur] = {}] /\ lost' = lost \union {exec.cur}
          \/ silo' = silo /\ lost' = lost
      BY <1>4, Zenon DEF Remove
    <2>3. /\ IsExec(exec') /\ exec'.at = "remove" /\ exec'.todo = exec.todo
          /\ exec'.cur = exec.cur /\ exec'.stale = exec.stale
      BY <1>1, <2>1 DEF IsExec
    <2>4. ReplaceInv' /\ exec'.at \in FetchSteps
      BY <2>3 DEF ReplaceInv, FetchSteps
    <2>5. \/ silo' = silo
          \/ /\ exec.cur \in lost' \union exec.stale
             /\ \E S \in {{}} \union {{c} : c \in Contents} : silo' = [silo EXCEPT ![exec.cur] = S]
      BY <2>2
    <2>6. lost \subseteq lost'
      BY <2>2
    <2>7. QED
      BY <1>2, <1>p, <2>3, <2>4, <2>5, <2>6, LoopMove
  <1>5. CASE Replace
    <2>1. /\ exec.got \in Contents
          /\ lost' = lost \union {exec.cur}
          /\ \/ silo' = [silo EXCEPT ![exec.cur] = {}] /\ exec' = [exec EXCEPT !.at = "index"]
             \/ silo' = silo /\ exec' = [exec EXCEPT !.at = "save", !.ok = FALSE]
      BY <1>5, Zenon DEF Replace
    <2>2. CASE silo' = [silo EXCEPT ![exec.cur] = {}] /\ exec' = [exec EXCEPT !.at = "index"]
      <3>1. /\ IsExec(exec') /\ exec'.at = "index" /\ exec'.todo = exec.todo
            /\ exec'.cur = exec.cur /\ exec'.stale = exec.stale /\ exec'.got = exec.got
        BY <1>1, <2>2 DEF IsExec
      <3>2. silo'[exec.cur] = {}
        BY <1>3, <1>c, <2>2
      <3>3. ReplaceInv' /\ exec'.at \in FetchSteps
        BY <2>1, <3>1, <3>2 DEF ReplaceInv, FetchSteps
      <3>4. lost \subseteq lost' /\ exec.cur \in lost' \union exec.stale
        BY <2>1
      <3>5. \E S \in {{}} \union {{c} : c \in Contents} : silo' = [silo EXCEPT ![exec.cur] = S]
        BY <2>2
      <3>6. QED
        BY <1>2, <1>p, <3>1, <3>3, <3>4, <3>5, LoopMove
    <2>3. CASE silo' = silo /\ exec' = [exec EXCEPT !.at = "save", !.ok = FALSE]
      <3>1. /\ IsExec(exec') /\ exec'.at = "save" /\ exec'.todo = exec.todo
            /\ exec'.cur = exec.cur /\ exec'.stale = exec.stale /\ exec'.got = exec.got
            /\ exec'.ok = FALSE
        BY <1>1, <2>3 DEF IsExec
      <3>2. ReplaceInv' /\ exec'.at \in FetchSteps
        BY <2>1, <3>1 DEF ReplaceInv, FetchSteps
      <3>3. lost \subseteq lost'
        BY <2>1
      <3>4. QED
        BY <1>2, <1>p, <2>3, <3>1, <3>2, <3>3, LoopMove
    <2>4. QED
      BY <2>1, <2>2, <2>3
  <1>6. CASE Index
    <2>1. /\ exec.at = "index" /\ lost' = lost
          /\ \/ /\ silo' = [silo EXCEPT ![exec.cur] = @ \union {exec.got}]
                /\ exec' = [exec EXCEPT !.at = "save", !.ok = TRUE]
             \/ silo' = silo /\ exec' = [exec EXCEPT !.at = "save", !.ok = FALSE]
      BY <1>6, Zenon DEF Index
    <2>2. /\ exec.got \in Contents /\ silo[exec.cur] = {}
          /\ exec.cur \in lost \/ exec.cur \in exec.stale
      BY <2>1 DEF PagesInv, ReplaceInv
    <2>3. /\ IsExec(exec') /\ exec'.at = "save" /\ exec'.todo = exec.todo
          /\ exec'.cur = exec.cur /\ exec'.stale = exec.stale /\ exec'.got = exec.got
      BY <1>1, <2>1 DEF IsExec
    <2>4. CASE /\ silo' = [silo EXCEPT ![exec.cur] = @ \union {exec.got}]
               /\ exec' = [exec EXCEPT !.at = "save", !.ok = TRUE]
      <3>1. silo' = [silo EXCEPT ![exec.cur] = {exec.got}]
        BY <1>3, <1>c, <2>2, <2>4
      <3>2. silo'[exec.cur] = {exec.got}
        BY <1>3, <1>c, <3>1
      <3>3. ReplaceInv' /\ exec'.at \in FetchSteps
        BY <2>1, <2>2, <2>3, <3>2 DEF ReplaceInv, FetchSteps
      <3>4. /\ lost \subseteq lost' /\ exec.cur \in lost' \union exec.stale
            /\ {exec.got} \in {{c} : c \in Contents}
        BY <2>1, <2>2
      <3>5. QED
        BY <1>2, <1>p, <2>3, <3>1, <3>3, <3>4, LoopMove
    <2>5. CASE silo' = silo /\ exec' = [exec EXCEPT !.at = "save", !.ok = FALSE]
      <3>1. exec'.ok = FALSE
        BY <1>1, <2>5 DEF IsExec
      <3>2. ReplaceInv' /\ exec'.at \in FetchSteps
        BY <2>1, <2>2, <2>3, <3>1 DEF ReplaceInv, FetchSteps
      <3>3. lost \subseteq lost'
        BY <2>1
      <3>4. QED
        BY <1>2, <1>p, <2>3, <2>5, <3>2, <3>3, LoopMove
    <2>6. QED
      BY <2>1, <2>4, <2>5
  <1>7. QED
    BY <1>4, <1>5, <1>6

-----------------------------------------------------------------------------
(* A candidate enters the table: its row is new, or the one that was looked *)
(* up, which keeps its hash and a better source.                            *)
LEMMA UpsertMove ==
  ASSUME PagesInv, exec.at = "upsert", NEW new,
         row' = [row EXCEPT ![exec.cur] = new],
         UNCHANGED <<web, silo, del, asked, lost>>,
         IsExec(exec'), exec'.at = exec.back, exec'.todo = exec.todo, exec'.stale = exec.stale,
         exec.cur \in Pages =>
           /\ IsRow(new)
           /\ exec.cur \in Disallowed \ asked => new.status = "EXCLUDED"
           /\ \/ row[exec.cur] = NoRow /\ new.hash = None
              \/ /\ exec.cur \notin exec.stale /\ row[exec.cur] # NoRow
                 /\ new.hash = row[exec.cur].hash
                 /\ new.status \in {row[exec.cur].status, "EXCLUDED"}
                 /\ row[exec.cur].via = "MANUAL" => new.via = "MANUAL"
  PROVE  PagesInv' /\ RowSteps
  <1>1. Typed /\ StaleInv /\ ExcludedInv /\ OneVersionInv /\ HashInv /\ CandidateInv
    BY DEF PagesInv
  <1>2. Writes(exec.cur, new)
    BY <1>1, RowWritten
  <1>3. exec'.at \in DiscoverSteps /\ (exec'.at = "manual" => exec'.todo \subseteq Manual)
    BY <1>1 DEF CandidateInv
  <1>4. Typed'
    BY <1>1, <1>2 DEF Typed, Writes
  <1>5. Hand' = {}
    BY <1>3 DEF Hand, FetchSteps, DiscoverSteps
  <1>6. HandInv' /\ CandidateInv' /\ ReplaceInv'
    BY <1>3, <1>5 DEF HandInv, CandidateInv, ReplaceInv, FetchSteps, DiscoverSteps
  <1>7. StaleInv'
    BY <1>1, <1>2 DEF StaleInv, Writes
  <1>8. ExcludedInv'
    BY <1>1, <1>2, SourcesAssumption DEF ExcludedInv, Writes
  <1>9. OneVersionInv'
    BY <1>1 DEF OneVersionInv
  <1>10. HashInv'
    <2>1. ASSUME NEW v \in Pages \ lost, row'[v] # NoRow, row'[v].hash \in Contents
          PROVE  silo[v] = {row'[v].hash}
      BY <1>1, <1>2, <2>1, ContentsAssumption DEF HashInv, Writes
    <2>2. QED
      BY <2>1 DEF HashInv
  <1>11. RowSteps
    BY <1>2 DEF RowSteps, Revived, KeepsManual, Writes
  <1>12. QED
    BY <1>4, <1>6, <1>7, <1>8, <1>9, <1>10, <1>11 DEF PagesInv

LEMMA UpsertStep ==
  ASSUME PagesInv, Upsert
  PROVE  PagesInv' /\ RowSteps
  <1> PICK dated : dated = (exec.via = "SITEMAP" /\ exec.cur \in Dated)
    OBVIOUS
  <1> PICK d : d = (row[exec.cur].dated \/ dated)
    OBVIOUS
  <1> PICK via : via = IF SourcePriority(exec.via) < SourcePriority(row[exec.cur].via)
                       THEN exec.via ELSE row[exec.cur].via
    OBVIOUS
  <1> PICK s : s = IF exec.excluded THEN "EXCLUDED" ELSE row[exec.cur].status
    OBVIOUS
  <1> PICK first : first = IF exec.excluded THEN "EXCLUDED" ELSE "PENDING"
    OBVIOUS
  <1> PICK c : c = IF exec.back = "expand" THEN exec.cur ELSE NoPage
    OBVIOUS
  <1> PICK b : b = exec.back
    OBVIOUS
  <1> PICK iv : iv = Idle.via
    OBVIOUS
  <1> PICK inserted : inserted = [status |-> first, via |-> exec.via, dated |-> dated,
                                  indexed |-> FALSE, hash |-> None, etag |-> None]
    OBVIOUS
  <1> PICK updated : updated = [row[exec.cur] EXCEPT !.via = via, !.dated = d, !.status = s]
    OBVIOUS
  <1> PICK next : next = [exec EXCEPT !.at = b, !.via = iv, !.excluded = FALSE,
                                      !.known = FALSE, !.cur = c]
    OBVIOUS
  <1>1. exec.at = "upsert"
    BY Zenon DEF Upsert
  <1>2. \/ Abandon
        \/ /\ exec.known /\ exec.cur \notin exec.stale
           /\ row' = [row EXCEPT ![exec.cur] = updated]
           /\ exec' = next /\ UNCHANGED <<web, silo, del, asked, lost>>
        \/ /\ ~exec.known /\ row[exec.cur] = NoRow
           /\ row' = [row EXCEPT ![exec.cur] = inserted]
           /\ exec' = next /\ UNCHANGED <<web, silo, del, asked, lost>>
    BY Zenon DEF Upsert
  <1>3. Typed /\ CandidateInv
    BY DEF PagesInv
  <1>4. /\ IsExec(next) /\ next.at = exec.back /\ next.todo = exec.todo
        /\ next.stale = exec.stale
    BY <1>3 DEF Typed, IsExec
  <1>5. exec.cur \in Disallowed \ asked => s = "EXCLUDED" /\ first = "EXCLUDED"
    BY <1>1, <1>3 DEF CandidateInv
  <1>6. CASE Abandon
    BY <1>6, IdleMove, SameRows DEF Abandon
  <1>7. CASE /\ exec.known /\ exec.cur \notin exec.stale
             /\ row' = [row EXCEPT ![exec.cur] = updated]
             /\ exec' = next /\ UNCHANGED <<web, silo, del, asked, lost>>
    <2>1. row[exec.cur] # NoRow
      BY <1>1, <1>3, <1>7 DEF CandidateInv
    <2>2. ASSUME exec.cur \in Pages
          PROVE  IsRow(updated) /\ updated.hash = row[exec.cur].hash /\ updated.status = s
                 /\ updated.via = via
      <3>1. IsRow(row[exec.cur])
        BY <1>3, <2>1, <2>2 DEF Typed
      <3>2. s \in Status
        BY <3>1 DEF IsRow, Status
      <3>3. QED
        BY <3>1, <3>2 DEF IsRow
    <2>3. row[exec.cur].via = "MANUAL" => via = "MANUAL"
      BY DEF SourcePriority
    <2>4. s \in {row[exec.cur].status, "EXCLUDED"}
      OBVIOUS
    <2>5. QED
      BY <1>1, <1>4, <1>5, <1>7, <2>1, <2>2, <2>3, <2>4, UpsertMove
  <1>8. CASE /\ ~exec.known /\ row[exec.cur] = NoRow
             /\ row' = [row EXCEPT ![exec.cur] = inserted]
             /\ exec' = next /\ UNCHANGED <<web, silo, del, asked, lost>>
    <2>1. IsRow(inserted) /\ inserted.hash = None /\ inserted.status = first
      BY DEF IsRow, Status
    <2>2. QED
      BY <1>1, <1>4, <1>5, <1>8, <2>1, UpsertMove
  <1>9. QED
    BY <1>2, <1>6, <1>7, <1>8

-----------------------------------------------------------------------------
(* A request sets a row to PENDING: the page was asked for.                 *)
LEMMA RequestMove ==
  ASSUME PagesInv, NEW u \in Pages, NEW new, IsRow(new),
         row' = [row EXCEPT ![u] = new], asked' = asked \union {u},
         UNCHANGED <<web, silo, exec, del, lost>>,
         new.status = "PENDING",
         row[u] = NoRow => new.hash = None,
         row[u] # NoRow => new.hash = row[u].hash /\ new.via \in {row[u].via, "MANUAL"}
  PROVE  PagesInv' /\ RowSteps
  <1>1. /\ Typed /\ HandInv /\ CandidateInv /\ ReplaceInv
        /\ StaleInv /\ ExcludedInv /\ OneVersionInv /\ HashInv
    BY DEF PagesInv
  <1>2. Writes(u, new)
    BY <1>1, RowWritten
  <1>3. row'[u] # NoRow
    BY <1>2, NoRowShape DEF Writes
  <1>4. row = [v \in Pages |-> row[v]]
    BY <1>1 DEF Typed
  <1>5. \A v : v # u => row'[v] = row[v]
    BY <1>4
  <1>6. Typed'
    BY <1>1, <1>2 DEF Typed, Writes
  <1>7. HandInv'
    <2>1. Hand' = Hand
      BY DEF Hand
    <2>2. QED
      BY <1>1, <1>2, <1>3, <1>5, <2>1 DEF HandInv, Writes
  <1>8. CandidateInv'
    BY <1>1, <1>3, <1>5 DEF CandidateInv
  <1>9. ReplaceInv'
    BY <1>1 DEF ReplaceInv
  <1>10. StaleInv'
    BY <1>1, <1>2 DEF StaleInv, Writes
  <1>11. ExcludedInv'
    BY <1>1, <1>5 DEF ExcludedInv
  <1>12. OneVersionInv'
    BY <1>1 DEF OneVersionInv
  <1>13. HashInv'
    <2>1. ASSUME NEW v \in Pages \ lost, row'[v] # NoRow, row'[v].hash \in Contents
          PROVE  silo[v] = {row'[v].hash}
      BY <1>1, <1>2, <2>1, ContentsAssumption DEF HashInv, Writes
    <2>2. QED
      BY <2>1 DEF HashInv
  <1>14. RowSteps
    BY <1>2 DEF RowSteps, Revived, KeepsManual, Writes
  <1>15. QED
    BY <1>6, <1>7, <1>8, <1>9, <1>10, <1>11, <1>12, <1>13, <1>14 DEF PagesInv

LEMMA RequestStep ==
  ASSUME PagesInv, AddManual \/ MarkForRecrawl
  PROVE  PagesInv' /\ RowSteps
  <1>1. Typed
    BY DEF PagesInv
  <1>2. UNCHANGED <<web, silo, exec, del, lost>>
    BY Zenon DEF AddManual, MarkForRecrawl
  <1> PICK fresh : fresh = [status |-> "PENDING", via |-> "MANUAL", dated |-> FALSE,
                            indexed |-> FALSE, hash |-> None, etag |-> None]
    OBVIOUS
  <1>3. IsRow(fresh) /\ fresh.status = "PENDING" /\ fresh.hash = None /\ fresh.via = "MANUAL"
    BY DEF IsRow, Status
  <1>4. PICK u \in Touched : \E old, marked :
          /\ old = [row[u] EXCEPT !.status = "PENDING", !.via = "MANUAL"]
          /\ marked = [row[u] EXCEPT !.status = "PENDING"]
          /\ asked' = asked \union {u}
          /\ \/ row[u] = NoRow /\ row' = [row EXCEPT ![u] = fresh]
             \/ row[u] # NoRow /\ row' = [row EXCEPT ![u] = old]
             \/ row[u] # NoRow /\ row' = [row EXCEPT ![u] = marked]
    BY Zenon DEF AddManual, MarkForRecrawl
  <1>5. u \in Pages
    BY SourcesAssumption
  <1>6. CASE row[u] = NoRow /\ row' = [row EXCEPT ![u] = fresh]
    BY <1>2, <1>3, <1>4, <1>5, <1>6, RequestMove
  <1>7. CASE row[u] # NoRow
    <2>1. IsRow(row[u])
      BY <1>1, <1>5, <1>7 DEF Typed
    <2>2. PICK new : /\ row' = [row EXCEPT ![u] = new]
                     /\ \/ new = [row[u] EXCEPT !.status = "PENDING", !.via = "MANUAL"]
                        \/ new = [row[u] EXCEPT !.status = "PENDING"]
      BY <1>4, <1>7, Zenon
    <2>3. /\ IsRow(new) /\ new.status = "PENDING" /\ new.hash = row[u].hash
          /\ new.via \in {row[u].via, "MANUAL"}
      BY <2>1, <2>2 DEF IsRow, Status
    <2>4. QED
      BY <1>2, <1>4, <1>5, <1>7, <2>2, <2>3, RequestMove
  <1>8. QED
    BY <1>4, <1>6, <1>7

LEMMA DeleteChunksStep ==
  ASSUME PagesInv, DeleteChunks
  PROVE  PagesInv' /\ RowSteps
  <1>1. /\ Typed /\ HandInv /\ CandidateInv /\ ReplaceInv
        /\ StaleInv /\ ExcludedInv /\ OneVersionInv /\ HashInv
    BY DEF PagesInv
  <1>2. row' = row /\ asked' = asked
    BY Zenon DEF DeleteChunks
  <1>3. PICK u \in Touched :
          /\ del' = u
          /\ \/ /\ silo' = [silo EXCEPT ![u] = {}]
                /\ lost' = lost \union {u}
                /\ exec' = IF exec.cur = u THEN [exec EXCEPT !.ok = FALSE] ELSE exec
             \/ silo' = silo /\ lost' = lost /\ exec' = exec
    BY Zenon DEF DeleteChunks
  <1>4. u \in Pages
    BY SourcesAssumption
  <1>5. CASE silo' = silo /\ lost' = lost /\ exec' = exec
    <2>1. Typed' /\ HandInv' /\ CandidateInv' /\ ReplaceInv'
      BY <1>1, <1>2, <1>3, <1>4, <1>5 DEF Typed, HandInv, Hand, CandidateInv, ReplaceInv
    <2>2. StaleInv' /\ ExcludedInv' /\ OneVersionInv' /\ HashInv'
      BY <1>1, <1>2, <1>5 DEF StaleInv, ExcludedInv, OneVersionInv, HashInv
    <2>3. QED
      BY <1>2, <2>1, <2>2, SameRows DEF PagesInv
  <1>6. CASE /\ silo' = [silo EXCEPT ![u] = {}]
             /\ lost' = lost \union {u}
             /\ exec' = IF exec.cur = u THEN [exec EXCEPT !.ok = FALSE] ELSE exec
    <2>1. /\ silo' = [v \in Pages |-> silo'[v]]
          /\ silo'[u] = {} /\ \A v : v # u => silo'[v] = silo[v]
      BY <1>1, <1>4, <1>6 DEF Typed
    <2>2. IsExec(exec)
      BY <1>1 DEF Typed
    <2>3. /\ IsExec(exec') /\ exec'.at = exec.at /\ exec'.todo = exec.todo
          /\ exec'.back = exec.back /\ exec'.cur = exec.cur /\ exec'.stale = exec.stale
          /\ exec'.known = exec.known /\ exec'.excluded = exec.excluded /\ exec'.got = exec.got
          /\ IF exec.cur = u THEN exec'.ok = FALSE ELSE exec'.ok = exec.ok
      BY <1>6, <2>2 DEF IsExec
    <2>4. Typed'
      BY <1>1, <1>2, <1>3, <1>4, <2>1, <2>3 DEF Typed
    <2>5. HandInv'
      <3>1. Hand' = Hand
        BY <2>3 DEF Hand
      <3>2. QED
        BY <1>1, <1>2, <2>3, <3>1 DEF HandInv
    <2>6. CandidateInv'
      BY <1>1, <1>2, <2>3 DEF CandidateInv
    <2>7. ReplaceInv'
      BY <1>1, <1>6, <2>1, <2>3 DEF ReplaceInv
    <2>8. StaleInv'
      BY <1>1, <1>2, <2>3 DEF StaleInv
    <2>9. ExcludedInv' /\ OneVersionInv'
      BY <1>1, <1>2, <2>1 DEF ExcludedInv, OneVersionInv
    <2>10. HashInv'
      BY <1>1, <1>2, <1>6, <2>1 DEF HashInv
    <2>11. QED
      BY <1>2, <2>4, <2>5, <2>6, <2>7, <2>8, <2>9, <2>10, SameRows DEF PagesInv
  <1>7. QED
    BY <1>3, <1>5, <1>6

(* A row that goes is marked in the hands of the executor. *)
LEMMA DeleteRowStep ==
  ASSUME PagesInv, DeleteRow
  PROVE  PagesInv' /\ RowSteps
  <1>1. /\ Typed /\ HandInv /\ CandidateInv /\ ReplaceInv
        /\ StaleInv /\ ExcludedInv /\ OneVersionInv /\ HashInv
    BY DEF PagesInv
  <1>2. /\ row' = [row EXCEPT ![del] = NoRow]
        /\ lost' = lost \ {del} /\ del' = NoPage /\ del # NoPage
        /\ UNCHANGED <<web, silo, asked>>
    BY Zenon DEF DeleteRow
  <1>3. PICK st : st = exec.stale \union {del}
    OBVIOUS
  <1>4. exec' = IF exec.cur = del \/ del \in exec.todo THEN [exec EXCEPT !.stale = st] ELSE exec
    BY <1>3, Zenon DEF DeleteRow
  <1>5. IsExec(exec) /\ del \in Pages
    BY <1>1, <1>2 DEF Typed
  <1>6. /\ IsExec(exec') /\ exec'.at = exec.at /\ exec'.todo = exec.todo
        /\ exec'.back = exec.back /\ exec'.cur = exec.cur
        /\ exec'.known = exec.known /\ exec'.excluded = exec.excluded /\ exec'.got = exec.got
        /\ exec'.ok = exec.ok
        /\ exec'.stale = IF exec.cur = del \/ del \in exec.todo THEN st ELSE exec.stale
    BY <1>4, <1>5 DEF IsExec
  <1>7. Writes(del, NoRow)
    BY <1>1, <1>2, RowWritten
  <1>8. row'[del] = NoRow /\ \A v : v # del => row'[v] = row[v]
    BY <1>1, <1>2, <1>5 DEF Typed
  <1>9. exec.stale \subseteq exec'.stale /\ exec'.stale \subseteq exec.stale \union {del}
    BY <1>3, <1>6
  <1>10. Typed'
    BY <1>1, <1>2, <1>6, <1>7 DEF Typed, Writes
  <1>11. HandInv'
    <2>1. Hand' = Hand
      BY <1>6 DEF Hand
    <2>2. del \in Hand => del \in exec'.stale
      <3>1. del \in Hand => exec.cur = del \/ del \in exec.todo
        BY DEF Hand, FetchSteps
      <3>2. QED
        BY <1>3, <1>6, <3>1
    <2>3. QED
      BY <1>1, <1>2, <1>6, <1>8, <1>9, <2>1, <2>2 DEF HandInv
  <1>12. CandidateInv'
    <2>1. exec.cur = del => exec.cur \in exec'.stale
      BY <1>3, <1>6
    <2>2. QED
      BY <1>1, <1>2, <1>6, <1>8, <1>9, <2>1 DEF CandidateInv
  <1>13. ReplaceInv'
    <2>1. exec.cur = del => exec.cur \in exec'.stale
      BY <1>3, <1>6
    <2>2. QED
      BY <1>1, <1>2, <1>6, <1>9, <2>1 DEF ReplaceInv
  <1>14. StaleInv'
    BY <1>1, <1>8, <1>9 DEF StaleInv
  <1>15. ExcludedInv' /\ OneVersionInv'
    BY <1>1, <1>2, <1>8 DEF ExcludedInv, OneVersionInv
  <1>16. HashInv'
    BY <1>1, <1>2, <1>8 DEF HashInv
  <1>17. RowSteps
    BY <1>8 DEF RowSteps, Revived, KeepsManual
  <1>18. QED
    BY <1>10, <1>11, <1>12, <1>13, <1>14, <1>15, <1>16, <1>17 DEF PagesInv

LEMMA OutsideStep ==
  ASSUME PagesInv, SiteChanges \/ Crash
  PROVE  PagesInv' /\ RowSteps
  <1>1. UNCHANGED <<row, silo, asked, lost>>
    BY Zenon DEF SiteChanges, Crash
  <1>2. \/ exec' = Idle /\ UNCHANGED <<web, del>>
        \/ exec' = exec /\ del' \in {del, NoPage}
    BY DEF SiteChanges, Crash
  <1>3. CASE exec' = Idle /\ UNCHANGED <<web, del>>
    BY <1>1, <1>3, IdleMove, SameRows
  <1>4. CASE exec' = exec /\ del' \in {del, NoPage}
    <2>1. Hand' = Hand
      BY <1>4 DEF Hand
    <2>2. Typed' /\ HandInv' /\ CandidateInv' /\ ReplaceInv'
      BY <1>1, <1>4, <2>1 DEF PagesInv, Typed, HandInv, CandidateInv, ReplaceInv
    <2>3. StaleInv' /\ ExcludedInv' /\ OneVersionInv' /\ HashInv'
      BY <1>1, <1>4 DEF PagesInv, StaleInv, ExcludedInv, OneVersionInv, HashInv
    <2>4. QED
      BY <1>1, <2>2, <2>3, SameRows DEF PagesInv
  <1>5. QED
    BY <1>2, <1>3, <1>4

-----------------------------------------------------------------------------
LEMMA DiscoverStep ==
  ASSUME PagesInv, Discover
  PROVE  PagesInv' /\ RowSteps
  <1>1. CASE Begin \/ ReadSitemap \/ StartCrawl \/ Expand \/ EndCrawl
    <2>1. row' = row
      BY <1>1, Zenon DEF Begin, ReadSitemap, StartCrawl, Expand, EndCrawl, Moves
    <2>2. QED
      BY <1>1, <2>1, WalkStep, SameRows
  <1>2. CASE YieldManual \/ YieldSitemap
    <2>1. row' = row
      BY <1>2, Zenon DEF YieldManual, YieldSitemap, Yield, Moves
    <2>2. QED
      BY <1>2, <2>1, YieldStep, SameRows
  <1>3. CASE Visit
    <2>1. row' = row
      BY <1>3, Zenon DEF Visit, Yield, Moves
    <2>2. QED
      BY <1>3, <2>1, VisitStep, SameRows
  <1>4. CASE Upsert
    BY <1>4, UpsertStep
  <1>5. QED
    BY <1>1, <1>2, <1>3, <1>4 DEF Discover

LEMMA PagesStep ==
  ASSUME PagesInv, [Next]_vars
  PROVE  PagesInv' /\ RowSteps
  <1>1. CASE Next
    <2>1. CASE FetchLoop
      BY <2>1, ListStep, FinishStep, PickStep, PreCheckStep, FetchStep, SettleStep, SiloStep,
         RemovedStep, SaveStep DEF FetchLoop
    <2>2. QED
      BY <1>1, <2>1, DiscoverStep, RequestStep, DeleteChunksStep, DeleteRowStep, OutsideStep
         DEF Next
  <1>2. CASE UNCHANGED vars
    <2>1. UNCHANGED <<web, row, silo, exec, del, asked, lost>>
      BY <1>2 DEF vars
    <2>2. Hand' = Hand
      BY <2>1 DEF Hand
    <2>3. Typed' /\ HandInv' /\ CandidateInv' /\ ReplaceInv'
      BY <2>1, <2>2 DEF PagesInv, Typed, HandInv, CandidateInv, ReplaceInv
    <2>4. StaleInv' /\ ExcludedInv' /\ OneVersionInv' /\ HashInv'
      BY <2>1 DEF PagesInv, StaleInv, ExcludedInv, OneVersionInv, HashInv
    <2>5. QED
      BY <2>1, <2>3, <2>4, SameRows DEF PagesInv
  <1>3. QED
    BY <1>1, <1>2

(* The inductive invariant: rows, silo and executor agree. *)
LEMMA PagesInvariant == Spec => []PagesInv
  <1>1. Init => PagesInv
    BY InitPages
  <1>2. PagesInv /\ [Next]_vars => PagesInv'
    BY PagesStep
  <1>3. QED
    BY <1>1, <1>2, PTL DEF Spec

(* Whatever fails, crashes or is deleted between the delete and the index   *)
(* of a replacement, the silo never holds two versions of a page.           *)
THEOREM OneVersion == Spec => []SiloHoldsOneVersion
  <1>1. PagesInv => SiloHoldsOneVersion
    <2> SUFFICES ASSUME OneVersionInv, NEW u \in Pages
                 PROVE  Cardinality(silo[u]) <= 1
      BY DEF PagesInv, SiloHoldsOneVersion
    <2>1. silo[u] = {} \/ \E c \in Contents : silo[u] = {c}
      BY DEF OneVersionInv
    <2>2. CASE silo[u] = {}
      BY <2>2, FS_EmptySet
    <2>3. CASE \E c \in Contents : silo[u] = {c}
      <3>1. Cardinality(silo[u]) = 1
        BY <2>3, FS_Singleton, Zenon
      <3>2. QED
        BY <3>1
    <2>4. QED
      BY <2>1, <2>2, <2>3
  <1>2. QED
    BY <1>1, PagesInvariant, PTL

(* A row that says INDEXED has its text in the silo, unless a replacement   *)
(* of the page failed, was interrupted or its chunks were removed.          *)
THEOREM IndexedRowsTell == Spec => []IndexedIsInSilo
  <1>1. PagesInv => IndexedIsInSilo
    BY DEF PagesInv, HashInv, IndexedIsInSilo
  <1>2. QED
    BY <1>1, PagesInvariant, PTL

(* A page that robots.txt or the filters exclude reaches the silo only when *)
(* a user or the policy named it, whatever the sitemap and the links say.   *)
THEOREM DisallowedStaysOut == Spec => []DisallowedOnlyOnRequest
  <1>1. PagesInv => DisallowedOnlyOnRequest
    BY DEF PagesInv, ExcludedInv, DisallowedOnlyOnRequest
  <1>2. QED
    BY <1>1, PagesInvariant, PTL

(* No crawl revives by itself a page that was found gone or was excluded.   *)
THEOREM NoRevival == Spec => OnlyRequestsRevive
  <1>1. PagesInv /\ [Next]_vars =>
          [\A u \in Pages :
             row[u] # NoRow /\ row'[u] # NoRow /\ row[u].status \in {"REMOVED", "EXCLUDED"}
               => row'[u].status \in {row[u].status, "EXCLUDED"} \/ u \in asked']_vars
    BY PagesStep DEF RowSteps, Revived
  <1>2. QED
    BY <1>1, PagesInvariant, PTL DEF Spec, OnlyRequestsRevive

(* A row a user added stays a manual one, by whatever source a crawl finds  *)
(* its page again.                                                          *)
THEOREM ManualKept == Spec => ManualStaysManual
  <1>1. PagesInv /\ [Next]_vars =>
          [\A u \in Pages :
             row[u] # NoRow /\ row'[u] # NoRow /\ row[u].via = "MANUAL"
               => row'[u].via = "MANUAL"]_vars
    BY PagesStep DEF RowSteps, KeepsManual
  <1>2. QED
    BY <1>1, PagesInvariant, PTL DEF Spec, ManualStaysManual
-----------------------------------------------------------------------------
(* Types.  The one that takes an argument is that of the walk's queue: the  *)
(* k-th unvisited link exists, so what Expand appends are pages.            *)

(* The least of a set of natural numbers. *)
LEMMA LeastNat ==
  ASSUME NEW T, T \subseteq Nat, T # {}
  PROVE  \E m \in T : \A k \in T : m <= k
  <1>1. PICK R : R = {ss \in Nat \X Nat : ss[1] < ss[2]}
    OBVIOUS
  <1>2. IsWellFoundedOn(R, Nat)
    BY <1>1, NatLessThanWellFounded, Zenon DEF OpToRel
  <1>3. PICK m \in T : \A k \in T : <<k, m>> \notin R
    BY <1>2, WFMin, Zenon
  <1>4. ASSUME NEW k \in T PROVE m <= k
    <2>1. m \in Nat /\ k \in Nat /\ <<k, m>> \notin R
      BY <1>3
    <2>2. QED
      BY <1>1, <2>1
  <1>5. QED
    BY <1>4

(* A finite set of places has a k-th one, for every k up to its size. *)
LEMMA NthInPlaces ==
  ASSUME NEW n \in Nat, NEW S \in SUBSET (1 .. n), NEW k \in 1 .. Cardinality(S)
  PROVE  Nth(S, k) \in S
  <1>1. IsFiniteSet(S) /\ Cardinality(S) \in Nat
    <2>1. IsFiniteSet(1 .. n)
      BY FS_Interval
    <2>2. QED
      BY <2>1, FS_Subset, FS_CardinalityType
  <1>2. k \in Nat /\ k >= 1 /\ k <= Cardinality(S)
    BY <1>1
  <1> PICK Upto : Upto = [m \in Nat |-> {h \in S : h <= m}]
    OBVIOUS
  <1>3. ASSUME NEW m \in Nat
        PROVE  /\ Upto[m] = {h \in S : h <= m}
               /\ Upto[m] \subseteq S
               /\ \A h : h \in Upto[m] <=> h \in S /\ h <= m
    OBVIOUS
  <1>4. ASSUME NEW m \in Nat PROVE IsFiniteSet(Upto[m]) /\ Cardinality(Upto[m]) \in Nat
    BY <1>1, <1>3, FS_Subset, FS_CardinalityType
  <1> PICK Size : Size = [m \in Nat |-> Cardinality(Upto[m])]
    OBVIOUS
  <1>5. Size \in [Nat -> Nat] /\ \A m \in Nat : Size[m] = Cardinality(Upto[m])
    BY <1>4
  <1>6. Size[n] >= k
    <2>1. \A h \in S : h <= n
      OBVIOUS
    <2>2. S \subseteq Upto[n]
      BY <1>3, <2>1
    <2>3. Upto[n] = S
      BY <1>3, <2>2
    <2>4. QED
      BY <1>2, <1>5, <2>3
  <1> PICK T : T = {m \in Nat : Size[m] >= k}
    OBVIOUS
  <1>7. PICK m \in T : \A i \in T : m <= i
    BY <1>6, LeastNat
  <1>8. m \in Nat /\ Size[m] >= k
    BY <1>7
  <1>9. Size[0] = 0
    <2>1. \A h \in S : ~(h <= 0)
      OBVIOUS
    <2>2. \A h : h \notin Upto[0]
      BY <1>3, <2>1
    <2>3. Upto[0] = {}
      BY <2>2
    <2>4. QED
      BY <1>5, <2>3, FS_EmptySet
  <1>10. PICK l : l = m - 1
    OBVIOUS
  <1>11. l \in Nat /\ m = l + 1
    BY <1>2, <1>8, <1>9, <1>10
  <1>12. Size[l] < k
    <2>1. l \notin T
      BY <1>7, <1>11
    <2>2. QED
      BY <1>2, <1>5, <1>11, <2>1
  <1>13. \A h \in S : h <= m <=> h <= l \/ h = m
    BY <1>11
  <1>14. m \in S
    <2> SUFFICES ASSUME m \notin S PROVE FALSE
      OBVIOUS
    <2>1. \A h : h \in Upto[m] <=> h \in Upto[l]
      BY <1>3, <1>8, <1>11, <1>13
    <2>2. Upto[m] = Upto[l]
      BY <1>3, <1>8, <1>11, <2>1
    <2>3. QED
      BY <1>2, <1>5, <1>8, <1>11, <1>12, <2>2
  <1>15. Upto[m] = Upto[l] \union {m} /\ m \notin Upto[l]
    <2>1. m \notin Upto[l]
      BY <1>3, <1>11
    <2>2. \A h : h \in Upto[m] <=> h \in Upto[l] \union {m}
      BY <1>3, <1>8, <1>11, <1>13, <1>14
    <2>3. QED
      BY <1>3, <1>8, <1>11, <2>1, <2>2
  <1>16. Cardinality(Upto[m]) = Cardinality(Upto[l]) + 1
    <2>1. IsFiniteSet(Upto[l])
      BY <1>4, <1>11
    <2>2. Cardinality(Upto[l] \union {m}) =
            IF m \in Upto[l] THEN Cardinality(Upto[l]) ELSE Cardinality(Upto[l]) + 1
      BY <2>1, FS_AddElement, Zenon
    <2>3. QED
      BY <1>15, <2>2, Zenon
  <1>17. Cardinality(Upto[m]) = k
    BY <1>2, <1>5, <1>8, <1>11, <1>12, <1>16
  <1>18. \E i \in S : Cardinality({h \in S : h <= i}) = k
    BY <1>3, <1>8, <1>14, <1>17
  <1>19. QED
    BY <1>18, Zenon DEF Nth

LEMMA DeeperType ==
  ASSUME TypeOK, exec.cur \in Pages
  PROVE  Deeper \in Seq(Pages \X Nat)
  <1>1. PICK s : s = Links[exec.cur]
    OBVIOUS
  <1>2. s \in Seq(Pages) /\ exec.depth \in Nat
    BY <1>1, SourcesAssumption DEF TypeOK, Exec
  <1>3. PICK S : S = Unvisited
    OBVIOUS
  <1>4. S \in SUBSET (1 .. Len(s)) /\ Len(s) \in Nat
    BY <1>1, <1>2, <1>3 DEF Unvisited
  <1>5. Cardinality(S) \in Nat
    <2>1. IsFiniteSet(1 .. Len(s))
      BY <1>4, FS_Interval
    <2>2. QED
      BY <1>4, <2>1, FS_Subset, FS_CardinalityType
  <1>6. ASSUME NEW k \in 1 .. Cardinality(S)
        PROVE  <<s[Nth(S, k)], exec.depth + 1>> \in Pages \X Nat
    <2>1. Nth(S, k) \in 1 .. Len(s)
      BY <1>4, NthInPlaces
    <2>2. s[Nth(S, k)] \in Pages
      BY <1>2, <2>1
    <2>3. QED
      BY <1>2, <2>2
  <1>7. Deeper = [k \in 1 .. Cardinality(S) |-> <<s[Nth(S, k)], exec.depth + 1>>]
    BY <1>1, <1>3 DEF Deeper
  <1>8. QED
    BY <1>5, <1>6, <1>7

(* The page a candidate is made of, and the page whose links are read next. *)
CurInv == exec.at \in {"upsert", "expand"} => exec.cur \in Pages

TypeInv == TypeOK /\ CurInv

LEMMA Members ==
  /\ {"idle", "manual", "sitemap", "crawl", "upsert", "expand", "list", "pick",
      "check", "fetch", "answer", "remove", "index", "save"} = Steps
  /\ {"PENDING", "CRAWLING", "INDEXED", "FAILED", "REMOVED", "EXCLUDED"} = Status
  /\ {"MANUAL", "SITEMAP", "CRAWL"} = Source
  /\ Contents \subseteq Answers /\ "down" \in Answers
  /\ Contents \subseteq Hashes /\ None \in Hashes /\ "blank" \in Hashes
  BY DEF Steps, Status, Source, Answers, Other, Hashes

LEMMA IdleType == Idle \in Exec
  <1>1. <<>> \in Seq(Pages \X Nat)
    OBVIOUS
  <1>2. QED
    BY <1>1, Members DEF Idle, Exec

(* A step of the executor alone. *)
LEMMA MovesType ==
  ASSUME TypeOK, NEW next \in Exec, Moves(next),
         next.at \in {"upsert", "expand"} => next.cur \in Pages
  PROVE  TypeInv'
  BY DEF Moves, TypeOK, TypeInv, CurInv

LEMMA AbandonType ==
  ASSUME TypeOK, Abandon
  PROVE  TypeInv'
  <1>1. Moves(Idle) /\ Idle.at = "idle"
    BY DEF Abandon, Moves, Idle
  <1>2. QED
    BY <1>1, IdleType, MovesType

LEMMA YieldType ==
  ASSUME TypeOK, NEW from \in Exec, NEW u \in Pages, NEW v \in Source, NEW x \in BOOLEAN,
         Yield(from, u, v, x)
  PROVE  TypeInv'
  <1>1. PICK k : k = (row[u] # NoRow)
    OBVIOUS
  <1>2. PICK se : se = from.seen \union {u}
    OBVIOUS
  <1>3. PICK next : next = [from EXCEPT !.at = "upsert", !.cur = u, !.via = v, !.excluded = x,
                              !.seen = se, !.known = k, !.stale = {}]
    OBVIOUS
  <1>4. Moves(next)
    BY <1>1, <1>2, <1>3, Zenon DEF Yield
  <1>5. k \in BOOLEAN /\ se \in SUBSET Pages
    BY <1>1, <1>2 DEF Exec
  <1>6. next \in Exec /\ next.cur \in Pages
    <2>1. "upsert" \in Steps
      BY Members
    <2>2. QED
      BY <1>3, <1>5, <2>1 DEF Exec
  <1>7. QED
    BY <1>4, <1>6, MovesType

(* Discovery. *)
LEMMA WalkType ==
  ASSUME PagesInv, TypeInv, Begin \/ ReadSitemap \/ StartCrawl \/ Expand \/ EndCrawl
  PROVE  TypeInv'
  <1>1. TypeOK /\ exec \in Exec
    BY DEF TypeInv, TypeOK
  <1>2. CASE Begin
    <2>1. PICK se : se = Known
      OBVIOUS
    <2>2. PICK T : T = Manual \ Known
      OBVIOUS
    <2>3. PICK next : next = [Idle EXCEPT !.at = "manual", !.seen = se, !.todo = T]
      OBVIOUS
    <2>4. Moves(next)
      BY <1>2, <2>1, <2>2, <2>3, Zenon DEF Begin
    <2>5. se \in SUBSET Pages /\ T \in SUBSET Pages
      BY <2>1, <2>2, SourcesAssumption DEF Known
    <2>6. next \in Exec /\ next.at = "manual"
      BY <2>3, <2>5, IdleType, Members DEF Exec
    <2>7. QED
      BY <1>1, <2>4, <2>6, MovesType
  <1>3. CASE ReadSitemap
    <2>1. PICK locs \in {Sitemap, {}} :
            Moves([exec EXCEPT !.at = "sitemap", !.todo = locs \ exec.seen])
      BY <1>3, Zenon DEF ReadSitemap
    <2>2. PICK T : T = locs \ exec.seen
      OBVIOUS
    <2>3. T \in SUBSET Pages
      BY <2>2, SourcesAssumption
    <2>4. PICK next : next = [exec EXCEPT !.at = "sitemap", !.todo = T]
      OBVIOUS
    <2>5. next \in Exec /\ next.at = "sitemap"
      BY <1>1, <2>3, <2>4, Members DEF Exec
    <2>6. QED
      BY <1>1, <2>1, <2>2, <2>4, <2>5, MovesType
  <1>4. CASE StartCrawl \/ EndCrawl
    <2>1. \/ Moves([exec EXCEPT !.at = "list"])
          \/ /\ Seed # NoPage
             /\ Moves([exec EXCEPT !.at = "crawl", !.queue = <<<<Seed, 0>>>>])
      BY <1>4, Zenon DEF StartCrawl, EndCrawl
    <2>2. "list" \in Steps /\ "crawl" \in Steps
      BY Members
    <2>3. CASE Moves([exec EXCEPT !.at = "list"])
      <3>1. PICK next : next = [exec EXCEPT !.at = "list"]
        OBVIOUS
      <3>2. next \in Exec /\ next.at = "list"
        BY <1>1, <2>2, <3>1 DEF Exec
      <3>3. QED
        BY <1>1, <2>3, <3>1, <3>2, MovesType
    <2>4. CASE Seed # NoPage /\ Moves([exec EXCEPT !.at = "crawl", !.queue = <<<<Seed, 0>>>>])
      <3>1. PICK q : q = <<<<Seed, 0>>>>
        OBVIOUS
      <3>2. q \in Seq(Pages \X Nat)
        BY <2>4, <3>1, SourcesAssumption
      <3>3. PICK next : next = [exec EXCEPT !.at = "crawl", !.queue = q]
        OBVIOUS
      <3>4. next \in Exec /\ next.at = "crawl"
        BY <1>1, <2>2, <3>2, <3>3 DEF Exec
      <3>5. QED
        BY <1>1, <2>4, <3>1, <3>3, <3>4, MovesType
    <2>5. QED
      BY <2>1, <2>3, <2>4
  <1>5. CASE Expand
    <2>1. exec.cur \in Pages
      BY <1>5 DEF Expand, TypeInv, CurInv
    <2>2. PICK q \in {exec.queue, exec.queue \o Deeper} :
            Moves([exec EXCEPT !.at = "crawl", !.queue = q, !.cur = NoPage, !.depth = 0])
      BY <1>5, Zenon DEF Expand
    <2>3. exec.queue \in Seq(Pages \X Nat)
      BY <1>1 DEF Exec
    <2>4. q \in Seq(Pages \X Nat)
      <3>1. PICK X : X = Pages \X Nat
        OBVIOUS
      <3>2. exec.queue \in Seq(X) /\ Deeper \in Seq(X)
        BY <1>1, <2>1, <2>3, <3>1, DeeperType, Zenon
      <3>3. exec.queue \o Deeper \in Seq(X)
        BY <3>2
      <3>4. QED
        BY <2>2, <3>1, <3>2, <3>3, Zenon
    <2>5. PICK next : next = [exec EXCEPT !.at = "crawl", !.queue = q, !.cur = NoPage, !.depth = 0]
      OBVIOUS
    <2>6. next \in Exec /\ next.at = "crawl"
      BY <1>1, <2>4, <2>5, Members DEF Exec
    <2>7. QED
      BY <1>1, <2>2, <2>5, <2>6, MovesType
  <1>6. QED
    BY <1>2, <1>3, <1>4, <1>5

LEMMA CandidateType ==
  ASSUME PagesInv, TypeInv, YieldManual \/ YieldSitemap
  PROVE  TypeInv'
  <1>1. TypeOK /\ exec \in Exec /\ exec.todo \subseteq Pages
    BY DEF TypeInv, TypeOK, Exec
  <1>2. PICK u \in exec.todo :
          \/ Yield([exec EXCEPT !.todo = @ \ {u}, !.back = "manual"], u, "MANUAL", FALSE)
          \/ Yield([exec EXCEPT !.todo = @ \ {u}, !.back = "sitemap"],
                   u, "SITEMAP", u \in Disallowed)
    BY Zenon DEF YieldManual, YieldSitemap
  <1>3. PICK T : T = exec.todo \ {u}
    OBVIOUS
  <1>4. T \in SUBSET Pages /\ u \in Pages
    BY <1>1, <1>3
  <1>5. PICK x : x = (u \in Disallowed)
    OBVIOUS
  <1>6. ASSUME NEW b \in Steps
        PROVE  [exec EXCEPT !.todo = T, !.back = b] \in Exec
    BY <1>1, <1>4 DEF Exec
  <1>7. CASE Yield([exec EXCEPT !.todo = @ \ {u}, !.back = "manual"], u, "MANUAL", FALSE)
    <2>1. PICK from \in Exec : from = [exec EXCEPT !.todo = T, !.back = "manual"]
      BY <1>6, Members
    <2>2. QED
      BY <1>1, <1>3, <1>4, <1>7, <2>1, Members, YieldType
  <1>8. CASE Yield([exec EXCEPT !.todo = @ \ {u}, !.back = "sitemap"],
                   u, "SITEMAP", u \in Disallowed)
    <2>1. PICK from \in Exec : from = [exec EXCEPT !.todo = T, !.back = "sitemap"]
      BY <1>6, Members
    <2>2. Yield(from, u, "SITEMAP", x)
      BY <1>3, <1>5, <1>8, <2>1, Zenon
    <2>3. x \in BOOLEAN
      BY <1>5
    <2>4. QED
      BY <1>1, <1>4, <2>2, <2>3, Members, YieldType
  <1>9. QED
    BY <1>2, <1>7, <1>8

LEMMA VisitType ==
  ASSUME TypeInv, Visit
  PROVE  TypeInv'
  <1>1. TypeOK /\ exec \in Exec /\ exec.at = "crawl" /\ exec.queue # <<>>
    BY DEF TypeInv, TypeOK, Visit
  <1>2. PICK h : h = Head(exec.queue)
    OBVIOUS
  <1>3. PICK q : q = Tail(exec.queue)
    OBVIOUS
  <1>4. h \in Pages \X Nat /\ q \in Seq(Pages \X Nat)
    <2>1. PICK X : X = Pages \X Nat
      OBVIOUS
    <2>2. exec.queue \in Seq(X)
      BY <1>1, <2>1 DEF Exec
    <2>3. QED
      BY <1>1, <1>2, <1>3, <2>1, <2>2
  <1> PICK u : u = h[1]
    OBVIOUS
  <1> PICK d : d = h[2]
    OBVIOUS
  <1> PICK vs : vs = exec.visited \union {u}
    OBVIOUS
  <1> PICK b : b = IF u \in Disallowed THEN "crawl" ELSE "expand"
    OBVIOUS
  <1> PICK c : c = IF b = "expand" THEN u ELSE exec.cur
    OBVIOUS
  <1> PICK x : x = (u \in Disallowed)
    OBVIOUS
  <1> PICK skipped : skipped = [exec EXCEPT !.queue = q]
    OBVIOUS
  <1> PICK seen : seen = [exec EXCEPT !.queue = q, !.visited = vs, !.depth = d, !.at = b, !.cur = c]
    OBVIOUS
  <1> PICK from : from = [exec EXCEPT !.queue = q, !.visited = vs, !.depth = d, !.back = b]
    OBVIOUS
  <1>5. /\ u \in Pages /\ d \in Nat /\ b \in {"crawl", "expand"} /\ x \in BOOLEAN
        /\ b = "expand" => c = u
    BY <1>4
  <1>6. vs \in SUBSET Pages /\ c \in Pages \union {NoPage} /\ b \in Steps
    BY <1>1, <1>5, Members DEF Exec
  <1>7. Moves(skipped) \/ Moves(seen) \/ Yield(from, u, "CRAWL", x)
    BY <1>2, <1>3, Zenon DEF Visit
  <1>8. skipped \in Exec /\ skipped.at = "crawl"
    BY <1>1, <1>4 DEF Exec
  <1>9. seen \in Exec /\ seen.at = b /\ seen.cur = c
    BY <1>1, <1>4, <1>5, <1>6 DEF Exec
  <1>10. from \in Exec
    BY <1>1, <1>4, <1>5, <1>6 DEF Exec
  <1>11. "CRAWL" \in Source
    BY Members
  <1>12. CASE Moves(skipped)
    BY <1>1, <1>8, <1>12, MovesType
  <1>13. CASE Moves(seen)
    <2>1. seen.at \in {"upsert", "expand"} => seen.cur \in Pages
      BY <1>5, <1>9
    <2>2. QED
      BY <1>1, <1>9, <1>13, <2>1, MovesType
  <1>14. CASE Yield(from, u, "CRAWL", x)
    <2>1. x \in BOOLEAN /\ u \in Pages
      BY <1>5
    <2>2. QED
      BY <1>1, <1>10, <1>11, <1>14, <2>1, YieldType, Zenon
  <1>15. QED
    BY <1>7, <1>12, <1>13, <1>14

(* A written row is a row. *)
LEMMA RowType ==
  ASSUME TypeOK, NEW u, NEW new, u \in Pages => new \in Row \union {NoRow},
         row' = [row EXCEPT ![u] = new]
  PROVE  row' \in [Pages -> Row \union {NoRow}]
  BY DEF TypeOK

LEMMA UpsertType ==
  ASSUME PagesInv, TypeInv, Upsert
  PROVE  TypeInv'
  <1>1. TypeOK /\ exec \in Exec /\ exec.cur \in Pages /\ exec.at = "upsert"
    BY DEF TypeInv, TypeOK, CurInv, Upsert
  <1>2. CASE Abandon
    BY <1>1, <1>2, AbandonType
  <1>3. CASE ~Abandon
    <2> PICK u : u = exec.cur
      OBVIOUS
    <2> PICK dated : dated = (exec.via = "SITEMAP" /\ u \in Dated)
      OBVIOUS
    <2> PICK st : st = IF exec.excluded THEN "EXCLUDED" ELSE "PENDING"
      OBVIOUS
    <2> PICK st2 : st2 = IF exec.excluded THEN "EXCLUDED" ELSE row[u].status
      OBVIOUS
    <2> PICK vi : vi = IF SourcePriority(exec.via) < SourcePriority(row[u].via)
                       THEN exec.via ELSE row[u].via
      OBVIOUS
    <2> PICK da : da = (row[u].dated \/ dated)
      OBVIOUS
    <2> PICK inserted : inserted = [status |-> st, via |-> exec.via, dated |-> dated,
                                    indexed |-> FALSE, hash |-> None, etag |-> None]
      OBVIOUS
    <2> PICK updated : updated = [row[u] EXCEPT !.via = vi, !.dated = da, !.status = st2]
      OBVIOUS
    <2> PICK new : new = IF exec.known THEN updated ELSE inserted
      OBVIOUS
    <2> PICK c : c = IF exec.back = "expand" THEN u ELSE NoPage
      OBVIOUS
    <2>1. /\ ~(exec.known /\ u \in exec.stale)
          /\ row' = [row EXCEPT ![u] = new]
          /\ exec' = [exec EXCEPT !.at = exec.back, !.via = Idle.via, !.excluded = FALSE,
                                  !.known = FALSE, !.cur = c]
          /\ UNCHANGED <<web, silo, del, asked, lost>>
      BY <1>3, Zenon DEF Upsert
    <2>2. inserted \in Row
      <3>1. exec.via \in Source /\ st \in Status /\ None \in Hashes /\ dated \in BOOLEAN
        BY <1>1, Members DEF Exec
      <3>2. QED
        BY <3>1 DEF Row
    <2>3. exec.known => updated \in Row
      <3> SUFFICES ASSUME exec.known = TRUE PROVE updated \in Row
        BY <1>1 DEF Exec
      <3>1. row[u] # NoRow
        BY <1>1, <2>1 DEF PagesInv, CandidateInv
      <3>2. row[u] \in Row
        BY <1>1, <3>1 DEF TypeOK
      <3>3. st2 \in Status
        BY <3>2, Members DEF Row
      <3>4. vi \in Source
        BY <1>1, <3>2 DEF Row, Exec
      <3>5. da \in BOOLEAN
        OBVIOUS
      <3>6. QED
        BY <3>2, <3>3, <3>4, <3>5 DEF Row
    <2>4. new \in Row
      BY <2>2, <2>3
    <2>5. row' \in [Pages -> Row \union {NoRow}]
      BY <1>1, <2>1, <2>4, RowType
    <2>6. /\ exec' \in Exec
          /\ exec'.at = exec.back /\ exec'.cur = c
      <3>1. Idle.via \in Source /\ c \in Pages \union {NoPage} /\ exec.back \in Steps
        BY <1>1, Members DEF Idle, Exec
      <3>2. PICK v : v = Idle.via
        OBVIOUS
      <3>3. exec' = [exec EXCEPT !.at = exec.back, !.via = v, !.excluded = FALSE,
                                  !.known = FALSE, !.cur = c]
        BY <2>1, <3>2
      <3>4. QED
        BY <1>1, <3>1, <3>2, <3>3 DEF Exec
    <2>7. exec'.at \in {"upsert", "expand"} => exec'.cur \in Pages
      BY <1>1, <2>6 DEF PagesInv, CandidateInv, DiscoverSteps
    <2>8. QED
      BY <1>1, <2>1, <2>5, <2>6, <2>7 DEF TypeInv, TypeOK, CurInv
  <1>4. QED
    BY <1>2, <1>3

(* The fetch loop.  The page it has in hand is a page, and while its row    *)
(* object is not stale, the row is there.                                   *)
LEMMA PageInHand ==
  ASSUME PagesInv, TypeOK, exec.at \in FetchSteps
  PROVE  /\ exec.cur \in Pages
         /\ Holds(exec.cur) => row[exec.cur] \in Row
  <1>1. exec.cur \in Hand
    BY DEF Hand, FetchSteps
  <1>2. exec.cur \in Pages /\ (Holds(exec.cur) => row[exec.cur] # NoRow)
    BY <1>1 DEF PagesInv, HandInv, Holds
  <1>3. QED
    BY <1>2 DEF TypeOK

LEMMA CommitsType ==
  ASSUME TypeOK, NEW new, Commits(new), exec.cur \in Pages,
         Holds(exec.cur) => new \in Row,
         lost' = lost \/ lost' = lost \ {exec.cur}
  PROVE  TypeInv'
  <1>1. UNCHANGED <<web, silo, del, asked>>
    BY DEF Commits
  <1>2. /\ row' \in [Pages -> Row \union {NoRow}]
        /\ exec' \in Exec /\ exec'.at \in {"idle", "pick"}
    <2>1. CASE ~Holds(exec.cur)
      <3>1. row' = row /\ exec' = Idle
        BY <2>1, Zenon DEF Commits
      <3>2. Idle.at = "idle"
        BY DEF Idle
      <3>3. QED
        BY <3>1, <3>2, IdleType DEF TypeOK
    <2>2. CASE Holds(exec.cur)
      <3>1. /\ row' = [row EXCEPT ![exec.cur] = new]
            /\ exec' = [Idle EXCEPT !.at = "pick", !.todo = exec.todo, !.stale = exec.stale]
        BY <2>2, Zenon DEF Commits
      <3>2. "pick" \in Steps /\ exec.todo \in SUBSET Pages /\ exec.stale \in SUBSET Pages
        BY Members DEF TypeOK, Exec
      <3>3. exec' \in Exec /\ exec'.at = "pick"
        BY <3>1, <3>2, IdleType DEF Exec
      <3>4. QED
        BY <2>2, <3>1, <3>3, RowType
    <2>3. QED
      BY <2>1, <2>2
  <1>3. lost' \subseteq Pages
    BY DEF TypeOK
  <1>4. QED
    BY <1>1, <1>2, <1>3 DEF TypeInv, TypeOK, CurInv

LEMMA ListType ==
  ASSUME TypeInv, List \/ Finish
  PROVE  TypeInv'
  <1>1. TypeOK
    BY DEF TypeInv
  <1>2. CASE List
    <2>1. PICK T : T = Fetchable
      OBVIOUS
    <2>2. PICK next : next = [Idle EXCEPT !.at = "pick", !.todo = T]
      OBVIOUS
    <2>3. T \in SUBSET Pages /\ "pick" \in Steps
      BY <2>1, Members DEF Fetchable, Known
    <2>4. next \in Exec /\ next.at = "pick"
      BY <2>2, <2>3, IdleType DEF Exec
    <2>5. Moves(next)
      BY <1>2, <2>1, <2>2, Zenon DEF List
    <2>6. QED
      BY <1>1, <2>4, <2>5, MovesType
  <1>3. CASE Finish
    <2>1. Abandon
      BY <1>3, Zenon DEF Finish, Moves, Abandon
    <2>2. QED
      BY <1>1, <2>1, AbandonType
  <1>4. QED
    BY <1>2, <1>3

LEMMA PickType ==
  ASSUME PagesInv, TypeInv, Pick
  PROVE  TypeInv'
  <1>1. TypeOK /\ exec \in Exec /\ exec.at = "pick"
    BY DEF TypeInv, TypeOK, Pick
  <1>2. CASE Abandon
    BY <1>1, <1>2, AbandonType
  <1>3. CASE ~Abandon
    <2>1. PICK u \in exec.todo :
            /\ Holds(u)
            /\ row' = [row EXCEPT ![u].status = "CRAWLING"]
            /\ exec' = [exec EXCEPT !.at = "check", !.cur = u, !.todo = @ \ {u}]
            /\ UNCHANGED <<web, silo, del, asked, lost>>
      BY <1>3, Zenon DEF Pick
    <2>2. u \in Hand
      BY <1>1 DEF Hand, FetchSteps
    <2>3. u \in Pages /\ row[u] \in Row
      BY <1>1, <2>1, <2>2 DEF PagesInv, HandInv, Holds, TypeOK
    <2>4. PICK new : new = [row[u] EXCEPT !.status = "CRAWLING"]
      OBVIOUS
    <2>5. new \in Row
      BY <2>3, <2>4, Members DEF Row
    <2>6. row' \in [Pages -> Row \union {NoRow}]
      BY <1>1, <2>1, <2>4, <2>5, RowType
    <2>7. PICK T : T = exec.todo \ {u}
      OBVIOUS
    <2>8. T \in SUBSET Pages /\ "check" \in Steps
      BY <1>1, <2>7, Members DEF Exec
    <2>9. exec' = [exec EXCEPT !.at = "check", !.cur = u, !.todo = T]
      BY <2>1, <2>7
    <2>10. exec' \in Exec /\ exec'.at = "check"
      BY <1>1, <2>3, <2>8, <2>9 DEF Exec
    <2>11. QED
      BY <1>1, <2>1, <2>6, <2>10 DEF TypeInv, TypeOK, CurInv
  <1>4. QED
    BY <1>2, <1>3

LEMMA PreCheckType ==
  ASSUME PagesInv, TypeInv, PreCheck
  PROVE  TypeInv'
  <1>1. TypeOK /\ exec \in Exec /\ exec.at = "check" /\ exec.at \in FetchSteps
    BY DEF TypeInv, TypeOK, PreCheck, FetchSteps
  <1> PICK r : r = row[exec.cur]
    OBVIOUS
  <1>2. exec.cur \in Pages /\ (Holds(exec.cur) => r \in Row)
    BY <1>1, PageInHand
  <1>3. CASE Abandon
    BY <1>1, <1>3, AbandonType
  <1>4. CASE Commits([r EXCEPT !.status = "INDEXED"]) /\ UNCHANGED lost
    <2>1. PICK new : new = [r EXCEPT !.status = "INDEXED"]
      OBVIOUS
    <2>2. Holds(exec.cur) => new \in Row
      BY <1>2, <2>1, Members DEF Row
    <2>3. QED
      BY <1>1, <1>2, <1>4, <2>1, <2>2, CommitsType
  <1>5. CASE Holds(exec.cur) /\ Moves([exec EXCEPT !.at = "fetch", !.tag = r.etag, !.hash = r.hash])
    <2>1. PICK t : t = r.etag
      OBVIOUS
    <2>2. PICK h : h = r.hash
      OBVIOUS
    <2>3. PICK next : next = [exec EXCEPT !.at = "fetch", !.tag = t, !.hash = h]
      OBVIOUS
    <2>4. t \in Hashes /\ h \in Hashes /\ "fetch" \in Steps
      BY <1>2, <1>5, <2>1, <2>2, Members DEF Row
    <2>5. next \in Exec /\ next.at = "fetch"
      BY <1>1, <2>3, <2>4 DEF Exec
    <2>6. QED
      BY <1>1, <1>5, <2>1, <2>2, <2>3, <2>5, MovesType
  <1>6. QED
    BY <1>3, <1>4, <1>5, Zenon DEF PreCheck

LEMMA FetchType ==
  ASSUME TypeInv, Fetch, exec.cur \in Pages
  PROVE  TypeInv'
  <1>1. TypeOK /\ exec \in Exec
    BY DEF TypeInv, TypeOK
  <1>2. PICK a \in {web[exec.cur], "down"} : Moves([exec EXCEPT !.at = "answer", !.got = a])
    BY Zenon DEF Fetch
  <1>3. a \in Answers /\ "answer" \in Steps
    BY <1>1, Members DEF TypeOK
  <1>4. PICK next : next = [exec EXCEPT !.at = "answer", !.got = a]
    OBVIOUS
  <1>5. next \in Exec /\ next.at = "answer"
    BY <1>1, <1>3, <1>4 DEF Exec
  <1>6. QED
    BY <1>1, <1>2, <1>4, <1>5, MovesType

(* What an answer makes of a row is a row. *)
LEMMA SettledType ==
  ASSUME TypeOK, NEW r \in Row
  PROVE  Settled(r) \in Row
  <1>1. "INDEXED" \in Status /\ "FAILED" \in Status /\ "blank" \in Hashes
    BY Members
  <1>2. CASE Unmodified
    <2>1. Settled(r) = [r EXCEPT !.status = "INDEXED"]
      <3>1. Unmodified = TRUE /\ Unchanged = FALSE
        BY <1>2 DEF Unmodified, Unchanged, Served
      <3>2. exec.got # "down"
        BY <1>2, ContentsAssumption DEF Unmodified, Served, Other
      <3>3. QED
        BY <3>1, <3>2 DEF Settled
    <2>2. QED
      BY <1>1, <2>1 DEF Row
  <1>3. CASE ~Unmodified /\ Unchanged
    <2>1. PICK t : t = IF Tag = None THEN r.etag ELSE Tag
      OBVIOUS
    <2>2. t \in Hashes
      BY <1>3, <2>1, Members DEF Unchanged, Tag, Row
    <2>3. Settled(r) = [r EXCEPT !.status = "INDEXED", !.etag = t]
      <3>1. Unmodified = FALSE /\ Unchanged = TRUE
        BY <1>3 DEF Unmodified, Unchanged, Served
      <3>2. exec.got # "down" /\ exec.got # "blank"
        BY <1>3, ContentsAssumption DEF Unchanged, Other
      <3>3. QED
        BY <2>1, <3>1, <3>2 DEF Settled
    <2>4. QED
      BY <1>1, <2>2, <2>3 DEF Row
  <1>4. CASE ~Unmodified /\ ~Unchanged /\ exec.got = "down"
    BY <1>1, <1>4 DEF Settled, Row
  <1>5. CASE ~Unmodified /\ ~Unchanged /\ exec.got # "down" /\ exec.got = "blank"
    <2>1. PICK t : t = Tag
      OBVIOUS
    <2>2. t \in Hashes
      BY <1>5, <2>1, Members DEF Tag
    <2>3. Settled(r) = [r EXCEPT !.status = "INDEXED", !.hash = "blank", !.etag = t,
                                !.indexed = TRUE]
      BY <1>5, <2>1 DEF Settled
    <2>4. QED
      BY <1>1, <2>2, <2>3 DEF Row
  <1>6. CASE ~Unmodified /\ ~Unchanged /\ exec.got \notin {"down", "blank"}
    BY <1>6 DEF Settled
  <1>7. QED
    BY <1>2, <1>3, <1>4, <1>5, <1>6

LEMMA SettleType ==
  ASSUME PagesInv, TypeInv, Settle
  PROVE  TypeInv'
  <1>1. TypeOK /\ exec.at \in FetchSteps
    BY DEF TypeInv, Settle, FetchSteps
  <1>2. PICK new : new = Settled(row[exec.cur])
    OBVIOUS
  <1>3. Commits(new) /\ lost' = lost
    BY <1>2, Zenon DEF Settle
  <1>4. Holds(exec.cur) => new \in Row
    BY <1>1, <1>2, PageInHand, SettledType
  <1>5. QED
    BY <1>1, <1>3, <1>4, PageInHand, CommitsType

LEMMA RemovedType ==
  ASSUME PagesInv, TypeInv, Removed
  PROVE  TypeInv'
  <1>1. TypeOK /\ exec.at \in FetchSteps
    BY DEF TypeInv, Removed, FetchSteps
  <1>2. PICK new : new = [row[exec.cur] EXCEPT !.status = "REMOVED"]
    OBVIOUS
  <1>3. Commits(new) /\ lost' = lost
    BY <1>2, Zenon DEF Removed
  <1>4. Holds(exec.cur) => new \in Row
    BY <1>1, <1>2, PageInHand, Members DEF Row
  <1>5. QED
    BY <1>1, <1>3, <1>4, PageInHand, CommitsType

LEMMA SaveType ==
  ASSUME PagesInv, TypeInv, Save
  PROVE  TypeInv'
  <1>1. TypeOK /\ exec.at \in FetchSteps /\ exec.got \in Contents
    BY DEF TypeInv, Save, FetchSteps, PagesInv, ReplaceInv
  <1>2. PICK t : t = Tag
    OBVIOUS
  <1>3. PICK new : new = [row[exec.cur] EXCEPT !.status = "INDEXED", !.hash = exec.got,
                           !.etag = t, !.indexed = TRUE]
    OBVIOUS
  <1>4. Commits(new) /\ (lost' = lost \/ lost' = lost \ {exec.cur})
    BY <1>2, <1>3, Zenon DEF Save
  <1>5. t \in Hashes /\ exec.got \in Hashes /\ "INDEXED" \in Status
    BY <1>1, <1>2, Members DEF Tag
  <1>6. Holds(exec.cur) => new \in Row
    BY <1>1, <1>3, <1>5, PageInHand DEF Row
  <1>7. QED
    BY <1>1, <1>4, <1>6, PageInHand, CommitsType

LEMMA SiloType ==
  ASSUME PagesInv, TypeInv, Remove \/ Replace \/ Index
  PROVE  TypeInv'
  <1>1. TypeOK /\ exec \in Exec /\ exec.at \in FetchSteps /\ exec.at \notin {"upsert", "expand"}
    BY DEF TypeInv, TypeOK, Remove, Replace, Index, FetchSteps
  <1>2. exec.cur \in Pages
    BY <1>1, PageInHand
  <1>3. silo' \in [Pages -> SUBSET Contents]
    <2>1. CASE Remove \/ Replace
      <3>1. silo' = silo \/ silo' = [silo EXCEPT ![exec.cur] = {}]
        BY <2>1, Zenon DEF Remove, Replace
      <3>2. QED
        BY <1>1, <3>1 DEF TypeOK
    <2>2. CASE Index
      <3>1. exec.got \in Contents
        BY <2>2 DEF Index, PagesInv, ReplaceInv
      <3>2. silo' = silo \/ silo' = [silo EXCEPT ![exec.cur] = @ \union {exec.got}]
        BY <2>2, Zenon DEF Index
      <3>3. QED
        BY <1>1, <3>1, <3>2 DEF TypeOK
    <2>3. QED
      BY <2>1, <2>2
  <1>4. exec' \in Exec /\ exec'.at \in {"remove", "index", "save"}
    <2>1. \/ exec' = [exec EXCEPT !.at = "remove"]
          \/ exec' = [exec EXCEPT !.at = "index"]
          \/ exec' = [exec EXCEPT !.at = "save", !.ok = TRUE]
          \/ exec' = [exec EXCEPT !.at = "save", !.ok = FALSE]
      BY Zenon DEF Remove, Replace, Index
    <2>2. "remove" \in Steps /\ "index" \in Steps /\ "save" \in Steps
      BY Members
    <2>3. QED
      BY <1>1, <2>1, <2>2 DEF Exec
  <1>5. /\ lost' = lost \/ lost' = lost \union {exec.cur}
        /\ UNCHANGED <<web, row, del, asked>>
    BY DEF Remove, Replace, Index
  <1>6. QED
    BY <1>1, <1>2, <1>3, <1>4, <1>5 DEF TypeInv, TypeOK, CurInv

(* Requests, the site and crashes. *)
LEMMA RequestType ==
  ASSUME TypeInv, AddManual \/ MarkForRecrawl
  PROVE  TypeInv'
  <1>1. TypeOK
    BY DEF TypeInv
  <1>2. CASE AddManual
    <2>1. PICK u \in Touched :
            /\ row' = [row EXCEPT ![u] =
                 IF @ = NoRow
                 THEN [status |-> "PENDING", via |-> "MANUAL", dated |-> FALSE,
                       indexed |-> FALSE, hash |-> None, etag |-> None]
                 ELSE [@ EXCEPT !.status = "PENDING", !.via = "MANUAL"]]
            /\ asked' = asked \union {u}
      BY <1>2 DEF AddManual
    <2>2. u \in Pages
      BY SourcesAssumption
    <2>3. PICK fresh : fresh = [status |-> "PENDING", via |-> "MANUAL", dated |-> FALSE,
                                indexed |-> FALSE, hash |-> None, etag |-> None]
      OBVIOUS
    <2>4. PICK again : again = [row[u] EXCEPT !.status = "PENDING", !.via = "MANUAL"]
      OBVIOUS
    <2>5. PICK new : new = IF row[u] = NoRow THEN fresh ELSE again
      OBVIOUS
    <2>6. row' = [row EXCEPT ![u] = new]
      BY <2>1, <2>3, <2>4, <2>5, Zenon
    <2>7. "PENDING" \in Status /\ "MANUAL" \in Source /\ None \in Hashes
      BY Members
    <2>8. fresh \in Row
      BY <2>3, <2>7 DEF Row
    <2>9. row[u] # NoRow => again \in Row
      <3> SUFFICES ASSUME row[u] # NoRow PROVE again \in Row
        OBVIOUS
      <3>1. row[u] \in Row
        BY <1>1, <2>2 DEF TypeOK
      <3>2. QED
        BY <2>4, <2>7, <3>1 DEF Row
    <2>10. row' \in [Pages -> Row \union {NoRow}]
      BY <1>1, <2>5, <2>6, <2>8, <2>9, RowType
    <2>11. QED
      BY <1>1, <1>2, <2>1, <2>2, <2>10 DEF AddManual, TypeInv, TypeOK, CurInv
  <1>3. CASE MarkForRecrawl
    <2>1. PICK u \in Touched :
            /\ row[u] # NoRow
            /\ row' = [row EXCEPT ![u].status = "PENDING"]
            /\ asked' = asked \union {u}
      BY <1>3 DEF MarkForRecrawl
    <2>2. u \in Pages
      BY SourcesAssumption
    <2>3. PICK new : new = [row[u] EXCEPT !.status = "PENDING"]
      OBVIOUS
    <2>4. row[u] \in Row
      BY <1>1, <2>1, <2>2 DEF TypeOK
    <2>5. new \in Row
      BY <2>3, <2>4, Members DEF Row
    <2>6. row' \in [Pages -> Row \union {NoRow}]
      BY <1>1, <2>1, <2>3, <2>5, RowType
    <2>7. QED
      BY <1>1, <1>3, <2>1, <2>2, <2>6 DEF MarkForRecrawl, TypeInv, TypeOK, CurInv
  <1>4. QED
    BY <1>2, <1>3

LEMMA DeletionType ==
  ASSUME TypeInv, DeleteChunks \/ DeleteRow
  PROVE  TypeInv'
  <1>1. TypeOK /\ exec \in Exec
    BY DEF TypeInv, TypeOK
  <1>2. CASE DeleteChunks
    <2>1. PICK u \in Touched :
            /\ del' = u
            /\ silo' = silo \/ silo' = [silo EXCEPT ![u] = {}]
            /\ lost' = lost \/ lost' = lost \union {u}
            /\ exec' = exec \/ exec' = [exec EXCEPT !.ok = FALSE]
      BY <1>2, Zenon DEF DeleteChunks
    <2>2. u \in Pages /\ UNCHANGED <<web, row, asked>>
      BY <1>2, SourcesAssumption DEF DeleteChunks
    <2>3. exec' \in Exec /\ exec'.at = exec.at /\ exec'.cur = exec.cur
      BY <1>1, <2>1 DEF Exec
    <2>4. QED
      BY <2>1, <2>2, <2>3 DEF TypeInv, TypeOK, CurInv
  <1>3. CASE DeleteRow
    <2>1. PICK st : st = exec.stale \union {del}
      OBVIOUS
    <2>2. exec' = exec \/ exec' = [exec EXCEPT !.stale = st]
      BY <1>3, <2>1, Zenon DEF DeleteRow
    <2>3. st \in SUBSET Pages
      BY <1>1, <1>3, <2>1 DEF DeleteRow, TypeOK, Exec
    <2>4. exec' \in Exec /\ exec'.at = exec.at /\ exec'.cur = exec.cur
      BY <1>1, <2>2, <2>3 DEF Exec
    <2>5. /\ row' = [row EXCEPT ![del] = NoRow]
          /\ lost' = lost \ {del} /\ del' = NoPage
          /\ UNCHANGED <<web, silo, asked>>
      BY <1>3 DEF DeleteRow
    <2>6. row' \in [Pages -> Row \union {NoRow}]
      BY <1>1, <2>5, RowType
    <2>7. QED
      BY <2>4, <2>5, <2>6 DEF TypeInv, TypeOK, CurInv
  <1>4. QED
    BY <1>2, <1>3

LEMMA OutsideType ==
  ASSUME TypeInv, SiteChanges \/ Crash
  PROVE  TypeInv'
  <1>1. CASE SiteChanges
    <2>1. PICK u \in Pages, a \in Answers : web' = [web EXCEPT ![u] = a]
      BY <1>1, SourcesAssumption DEF SiteChanges, Answers
    <2>2. QED
      BY <1>1, <2>1 DEF SiteChanges, TypeInv, TypeOK, CurInv
  <1>2. CASE Crash
    <2>1. /\ exec' = exec \/ exec' = Idle
          /\ del' = del \/ del' = NoPage
          /\ UNCHANGED <<web, row, silo, asked, lost>>
      BY <1>2, Zenon DEF Crash
    <2>2. Idle \in Exec /\ Idle.at = "idle"
      BY IdleType DEF Idle
    <2>3. QED
      BY <2>1, <2>2 DEF TypeInv, TypeOK, CurInv
  <1>3. QED
    BY <1>1, <1>2

LEMMA InitTyped == Init => TypeInv
  <1> SUFFICES ASSUME Init PROVE TypeInv
    OBVIOUS
  <1>1. web \in [Pages -> Answers]
    BY DEF Init
  <1>2. exec \in Exec /\ exec.at = "idle"
    BY IdleType DEF Init, Idle
  <1>3. QED
    BY <1>1, <1>2, SourcesAssumption DEF Init, TypeInv, TypeOK, CurInv

LEMMA StepTyped ==
  ASSUME PagesInv, TypeInv, [Next]_vars
  PROVE  TypeInv'
  <1>1. CASE Discover
    BY <1>1, WalkType, CandidateType, VisitType, UpsertType DEF Discover
  <1>2. CASE Fetch
    <2>1. exec.cur \in Pages
      BY <1>2, PageInHand DEF Fetch, FetchSteps, TypeInv
    <2>2. QED
      BY <1>2, <2>1, FetchType
  <1>3. CASE FetchLoop
    BY <1>2, <1>3, ListType, PickType, PreCheckType, SettleType, SiloType, RemovedType,
       SaveType DEF FetchLoop
  <1>4. CASE UNCHANGED vars
    BY <1>4 DEF vars, TypeInv, TypeOK, CurInv
  <1>5. QED
    BY <1>1, <1>3, <1>4, RequestType, DeletionType, OutsideType DEF Next

(* The tables, the walk's queue and the executor's page are what they should *)
(* be: no step writes a row that was deleted under the session, indexes a   *)
(* page that is none or walks to a link that is not there.                  *)
THEOREM PagesTyped == Spec => []TypeOK
  <1>1. TypeInv => TypeOK
    BY DEF TypeInv
  <1>2. PagesInv /\ TypeInv /\ [Next]_vars => TypeInv'
    BY StepTyped
  <1>3. QED
    BY <1>1, <1>2, InitTyped, PagesInvariant, PTL DEF Spec

-----------------------------------------------------------------------------
(* A crawl comes to its end.  It has five parts: the manual urls, the       *)
(* sitemap, the walk along the links, the reading of the list and the pages *)
(* of the list.  An upsert belongs to the part it returns to.               *)
PartIn == [manual |-> 5, sitemap |-> 4, crawl |-> 3, expand |-> 3, list |-> 2, pick |-> 1,
           check |-> 1, fetch |-> 1, answer |-> 1, remove |-> 1, index |-> 1, save |-> 1]
Part(e) == PartIn[IF e.at = "upsert" THEN e.back ELSE e.at]

(* The pages a part has yet to take in hand: the walk along the links goes  *)
(* by the pages it has not visited, the others by their list.               *)
Ahead(e) == IF Part(e) = 3 THEN Pages \ e.visited ELSE e.todo

(* The steps that the page in hand still has to take at most.               *)
StepsIn == [upsert |-> 7, check |-> 6, fetch |-> 5, answer |-> 4, expand |-> 3, remove |-> 2,
            index |-> 2, save |-> 1, manual |-> 0, sitemap |-> 0, crawl |-> 0, list |-> 0,
            pick |-> 0]
InHand(e) == StepsIn[e.at]

(* One state of the executor is nearer to the end of the crawl than another: *)
(* by the part, the pages ahead, the page in hand or the queue of the walk.  *)
Nearer(f, e) ==
  \/ Part(f) < Part(e)
  \/ Part(f) = Part(e) /\ Cardinality(Ahead(f)) < Cardinality(Ahead(e))
  \/ Part(f) = Part(e) /\ Ahead(f) = Ahead(e) /\ InHand(f) < InHand(e)
  \/ /\ Part(f) = Part(e) /\ Ahead(f) = Ahead(e) /\ InHand(f) = InHand(e)
     /\ Len(f.queue) < Len(e.queue)

(* Neither is nearer.                                                       *)
AsFar(f, e) ==
  /\ Part(f) = Part(e) /\ Ahead(f) = Ahead(e) /\ InHand(f) = InHand(e)
  /\ f.queue = e.queue

Between == exec.at = "idle" \/ exec'.at = "idle"
NoCrawlBack == Between \/ Nearer(exec', exec) \/ AsFar(exec', exec)
CrawlGoesOn == Discover \/ FetchLoop => Between \/ Nearer(exec', exec)

LEMMA PartValues ==
  /\ PartIn["manual"] = 5 /\ PartIn["sitemap"] = 4 /\ PartIn["crawl"] = 3
  /\ PartIn["expand"] = 3 /\ PartIn["list"] = 2 /\ PartIn["pick"] = 1 /\ PartIn["check"] = 1
  /\ PartIn["fetch"] = 1 /\ PartIn["answer"] = 1 /\ PartIn["remove"] = 1
  /\ PartIn["index"] = 1 /\ PartIn["save"] = 1
  BY DEF PartIn

LEMMA StepsValues ==
  /\ StepsIn["upsert"] = 7 /\ StepsIn["check"] = 6 /\ StepsIn["fetch"] = 5
  /\ StepsIn["answer"] = 4 /\ StepsIn["expand"] = 3 /\ StepsIn["remove"] = 2
  /\ StepsIn["index"] = 2 /\ StepsIn["save"] = 1 /\ StepsIn["manual"] = 0
  /\ StepsIn["sitemap"] = 0 /\ StepsIn["crawl"] = 0 /\ StepsIn["list"] = 0
  /\ StepsIn["pick"] = 0
  BY DEF StepsIn

(* The part and the page in hand from where the executor is.                *)
LEMMA PartAt ==
  ASSUME NEW e
  PROVE  /\ e.at = "upsert" => Part(e) = PartIn[e.back] /\ InHand(e) = 7
         /\ e.at # "upsert" => Part(e) = PartIn[e.at] /\ InHand(e) = StepsIn[e.at]
  BY StepsValues DEF Part, InHand

LEMMA FewerLeft ==
  ASSUME NEW S, NEW T, NEW u \in S, IsFiniteSet(S), T \subseteq S \ {u}
  PROVE  Cardinality(T) < Cardinality(S)
  <1>1. Cardinality(S \ {u}) = Cardinality(S) - 1 /\ IsFiniteSet(S \ {u})
    BY FS_RemoveElement
  <1>2. Cardinality(T) <= Cardinality(S \ {u}) /\ IsFiniteSet(T)
    BY <1>1, FS_Subset
  <1>3. Cardinality(S) \in Nat /\ Cardinality(T) \in Nat
    BY <1>2, FS_CardinalityType
  <1>4. QED
    BY <1>1, <1>2, <1>3

(* A step from one part to a later one, and one that takes a page in hand.  *)
LEMMA TakesNext ==
  ASSUME IsFiniteSet(Pages), NEW f, NEW e, NEW u,
         e.todo \subseteq Pages, u \in e.todo, f.todo = e.todo \ {u},
         Part(f) = Part(e), Part(e) # 3
  PROVE  Nearer(f, e)
  <1>1. Ahead(e) = e.todo /\ Ahead(f) = f.todo
    BY DEF Ahead
  <1>2. IsFiniteSet(e.todo)
    BY FS_Subset
  <1>3. Cardinality(f.todo) < Cardinality(e.todo)
    BY <1>2, FewerLeft
  <1>4. QED
    BY <1>1, <1>3 DEF Nearer

(* A step on the page in hand.                                              *)
LEMMA WorksOn ==
  ASSUME NEW f, NEW e, Part(f) = Part(e), f.todo = e.todo, f.visited = e.visited,
         InHand(f) < InHand(e)
  PROVE  Nearer(f, e)
  BY DEF Nearer, Ahead

(* The walk that begins a part. *)
LEMMA WalkNearer ==
  ASSUME TypeInv, Begin \/ ReadSitemap \/ StartCrawl \/ Expand \/ EndCrawl
  PROVE  Between \/ Nearer(exec', exec)
  <1>1. exec \in Exec
    BY DEF TypeInv, TypeOK
  <1>2. CASE Begin
    BY <1>2 DEF Begin, Between
  <1>3. CASE ReadSitemap
    <2>1. PICK locs : exec' = [exec EXCEPT !.at = "sitemap", !.todo = locs \ exec.seen]
      BY <1>3, Zenon DEF ReadSitemap, Moves
    <2>2. PICK T : T = locs \ exec.seen
      OBVIOUS
    <2>3. exec.at = "manual" /\ exec'.at = "sitemap"
      BY <1>1, <1>3, <2>1, <2>2 DEF ReadSitemap, Exec
    <2>4. QED
      BY <2>3, PartAt, PartValues DEF Nearer
  <1>4. CASE StartCrawl
    <2>1. \/ exec' = [exec EXCEPT !.at = "list"]
          \/ exec' = [exec EXCEPT !.at = "crawl", !.queue = <<<<Seed, 0>>>>]
      BY <1>4 DEF StartCrawl, Moves
    <2>2. exec.at = "sitemap" /\ exec'.at \in {"list", "crawl"}
      BY <1>1, <1>4, <2>1 DEF StartCrawl, Exec
    <2>3. QED
      BY <2>2, PartAt, PartValues DEF Nearer
  <1>5. CASE EndCrawl
    <2>1. exec.at = "crawl" /\ exec'.at = "list"
      BY <1>1, <1>5 DEF EndCrawl, Moves, Exec
    <2>2. QED
      BY <2>1, PartAt, PartValues DEF Nearer
  <1>6. CASE Expand
    <2>1. PICK q : exec' = [exec EXCEPT !.at = "crawl", !.queue = q, !.cur = NoPage, !.depth = 0]
      BY <1>6, Zenon DEF Expand, Moves
    <2>2. /\ exec.at = "expand" /\ exec'.at = "crawl"
          /\ exec'.todo = exec.todo /\ exec'.visited = exec.visited
      BY <1>1, <1>6, <2>1 DEF Expand, Exec
    <2>3. QED
      BY <2>2, PartAt, PartValues, StepsValues, WorksOn
  <1>7. QED
    BY <1>2, <1>3, <1>4, <1>5, <1>6

(* What a yield makes of the executor. *)
LEMMA Yielded ==
  ASSUME NEW from \in Exec, NEW u, NEW v, NEW x, Yield(from, u, v, x)
  PROVE  /\ exec'.at = "upsert" /\ exec'.back = from.back
         /\ exec'.todo = from.todo /\ exec'.visited = from.visited
  <1>1. PICK k : k = (row[u] # NoRow)
    OBVIOUS
  <1>2. PICK se : se = from.seen \union {u}
    OBVIOUS
  <1>3. exec' = [from EXCEPT !.at = "upsert", !.cur = u, !.via = v, !.excluded = x,
                             !.seen = se, !.known = k, !.stale = {}]
    BY <1>1, <1>2 DEF Yield, Moves
  <1>4. QED
    BY <1>3 DEF Exec

(* A page of a list is taken in hand. *)
LEMMA YieldNearer ==
  ASSUME IsFiniteSet(Pages), TypeInv, YieldManual \/ YieldSitemap
  PROVE  Nearer(exec', exec)
  <1>1. exec \in Exec /\ exec.todo \subseteq Pages
    BY DEF TypeInv, TypeOK, Exec
  <1>2. PICK u \in exec.todo, b \in {"manual", "sitemap"} :
          /\ exec.at = b
          /\ \E v, x : Yield([exec EXCEPT !.todo = @ \ {u}, !.back = b], u, v, x)
    <2>1. CASE YieldManual
      BY <2>1, Zenon DEF YieldManual
    <2>2. CASE YieldSitemap
      BY <2>2, Zenon DEF YieldSitemap
    <2>3. QED
      BY <2>1, <2>2
  <1>3. PICK T : T = exec.todo \ {u}
    OBVIOUS
  <1>4. b \in Steps /\ T \in SUBSET Pages
    BY <1>1, <1>3, Members
  <1>5. PICK from : from = [exec EXCEPT !.todo = T, !.back = b]
    OBVIOUS
  <1>6. from \in Exec /\ from.todo = T /\ from.back = b
    BY <1>1, <1>4, <1>5 DEF Exec
  <1>7. exec'.at = "upsert" /\ exec'.back = b /\ exec'.todo = T
    <2>1. PICK v, x : Yield(from, u, v, x)
      BY <1>2, <1>3, <1>5
    <2>2. QED
      BY <1>6, <2>1, Yielded
  <1>8. Part(exec) = PartIn[b] /\ Part(exec') = PartIn[b] /\ PartIn[b] # 3
    BY <1>2, <1>7, PartAt, PartValues
  <1>9. QED
    BY <1>1, <1>3, <1>7, <1>8, TakesNext

(* A page of the walk is taken in hand, or leaves the queue. *)
LEMMA VisitNearer ==
  ASSUME IsFiniteSet(Pages), TypeInv, Visit
  PROVE  Nearer(exec', exec)
  <1>1. exec \in Exec /\ exec.at = "crawl" /\ exec.queue # <<>>
    BY DEF TypeInv, TypeOK, Visit
  <1>2. PICK h : h = Head(exec.queue)
    OBVIOUS
  <1>3. PICK q : q = Tail(exec.queue)
    OBVIOUS
  <1>4. /\ h \in Pages \X Nat /\ q \in Seq(Pages \X Nat)
        /\ Len(q) < Len(exec.queue)
    <2>1. PICK X : X = Pages \X Nat
      OBVIOUS
    <2>2. exec.queue \in Seq(X)
      BY <1>1, <2>1 DEF Exec
    <2>3. QED
      BY <1>1, <1>2, <1>3, <2>1, <2>2
  <1> PICK u : u = h[1]
    OBVIOUS
  <1> PICK d : d = h[2]
    OBVIOUS
  <1> PICK vs : vs = exec.visited \union {u}
    OBVIOUS
  <1> PICK b : b = IF u \in Disallowed THEN "crawl" ELSE "expand"
    OBVIOUS
  <1> PICK c : c = IF b = "expand" THEN u ELSE exec.cur
    OBVIOUS
  <1> PICK x : x = (u \in Disallowed)
    OBVIOUS
  <1> PICK from : from = [exec EXCEPT !.queue = q, !.visited = vs, !.depth = d, !.back = b]
    OBVIOUS
  <1>5. /\ u \in Pages /\ d \in Nat /\ b \in {"crawl", "expand"} /\ b \in Steps
        /\ vs \in SUBSET Pages
    BY <1>1, <1>4, Members DEF Exec
  <1>6. \/ exec' = [exec EXCEPT !.queue = q]
        \/ /\ u \notin exec.visited
           /\ exec' = [exec EXCEPT !.queue = q, !.visited = vs, !.depth = d, !.at = b, !.cur = c]
        \/ u \notin exec.visited /\ Yield(from, u, "CRAWL", x)
    BY <1>2, <1>3, Zenon DEF Visit, Moves
  <1>7. Part(exec) = 3 /\ InHand(exec) = 0
    BY <1>1, PartAt, PartValues, StepsValues
  <1>8. CASE exec' = [exec EXCEPT !.queue = q]
    <2>1. /\ exec'.at = "crawl" /\ exec'.queue = q
          /\ exec'.visited = exec.visited
      BY <1>1, <1>8 DEF Exec
    <2>2. Part(exec') = 3 /\ InHand(exec') = 0
      BY <2>1, PartAt, PartValues, StepsValues
    <2>3. QED
      BY <1>4, <1>7, <2>1, <2>2 DEF Nearer, Ahead
  <1>9. CASE u \notin exec.visited /\ Part(exec') = 3 /\ exec'.visited = vs
    <2>1. Ahead(exec) = Pages \ exec.visited /\ Ahead(exec') = Pages \ vs
      BY <1>7, <1>9 DEF Ahead
    <2>2. u \in Ahead(exec) /\ Ahead(exec') \subseteq Ahead(exec) \ {u}
      BY <1>5, <1>9, <2>1
    <2>3. IsFiniteSet(Ahead(exec))
      BY <2>1, FS_Subset
    <2>4. QED
      BY <1>7, <1>9, <2>2, <2>3, FewerLeft DEF Nearer
  <1>10. CASE /\ u \notin exec.visited
              /\ exec' = [exec EXCEPT !.queue = q, !.visited = vs, !.depth = d, !.at = b, !.cur = c]
    <2>1. exec'.at = b /\ exec'.visited = vs
      BY <1>1, <1>10 DEF Exec
    <2>2. Part(exec') = 3
      BY <1>5, <2>1, PartAt, PartValues
    <2>3. QED
      BY <1>9, <1>10, <2>1, <2>2
  <1>11. CASE u \notin exec.visited /\ Yield(from, u, "CRAWL", x)
    <2>1. from \in Exec /\ from.visited = vs /\ from.back = b
      BY <1>1, <1>4, <1>5 DEF Exec
    <2>2. exec'.at = "upsert" /\ exec'.back = b /\ exec'.visited = vs
      BY <1>11, <2>1, Yielded
    <2>3. Part(exec') = 3
      BY <1>5, <2>2, PartAt, PartValues
    <2>4. QED
      BY <1>9, <1>11, <2>2, <2>3
  <1>12. QED
    BY <1>6, <1>8, <1>10, <1>11

LEMMA IdleBetween == exec' = Idle => Between
  BY IdleShape DEF Between

(* A candidate is written. *)
LEMMA UpsertNearer ==
  ASSUME PagesInv, TypeInv, Upsert
  PROVE  Between \/ Nearer(exec', exec)
  <1>1. exec \in Exec /\ exec.at = "upsert" /\ exec.back \in DiscoverSteps
    BY DEF TypeInv, TypeOK, Upsert, PagesInv, CandidateInv
  <1>2. CASE Abandon
    BY <1>2, IdleBetween DEF Abandon
  <1>3. CASE ~Abandon
    <2>1. PICK c : exec' = [exec EXCEPT !.at = exec.back, !.via = Idle.via, !.excluded = FALSE,
                                        !.known = FALSE, !.cur = c]
      BY <1>3, Zenon DEF Upsert
    <2>2. PICK b : b = exec.back
      OBVIOUS
    <2>3. PICK v : v = Idle.via
      OBVIOUS
    <2>4. exec' = [exec EXCEPT !.at = b, !.via = v, !.excluded = FALSE, !.known = FALSE,
                               !.cur = c]
      BY <2>1, <2>2, <2>3
    <2>5. exec'.at = b /\ exec'.todo = exec.todo /\ exec'.visited = exec.visited
      BY <1>1, <2>4 DEF Exec
    <2>6. /\ Part(exec) = PartIn[b] /\ Part(exec') = PartIn[b]
          /\ InHand(exec) = 7 /\ InHand(exec') \in {0, 3}
      BY <1>1, <2>2, <2>5, PartAt, StepsValues DEF DiscoverSteps
    <2>7. QED
      BY <2>5, <2>6, WorksOn
  <1>4. QED
    BY <1>2, <1>3

(* The list is read, and its next page taken in hand. *)
LEMMA ListNearer ==
  ASSUME IsFiniteSet(Pages), TypeInv, List \/ Finish \/ Pick
  PROVE  Between \/ Nearer(exec', exec)
  <1>1. exec \in Exec /\ exec.todo \subseteq Pages
    BY DEF TypeInv, TypeOK, Exec
  <1>2. CASE List
    <2>1. PICK T : exec' = [Idle EXCEPT !.at = "pick", !.todo = T]
      BY <1>2, Zenon DEF List, Moves
    <2>2. exec'.at = "pick" /\ exec.at = "list"
      BY <1>2, <2>1 DEF List, Idle
    <2>3. QED
      BY <2>2, PartAt, PartValues DEF Nearer
  <1>3. CASE Finish
    BY <1>3, IdleBetween DEF Finish, Moves
  <1>4. CASE Pick /\ ~Abandon
    <2>1. PICK u \in exec.todo :
            exec' = [exec EXCEPT !.at = "check", !.cur = u, !.todo = @ \ {u}]
      BY <1>4, Zenon DEF Pick
    <2>2. PICK T : T = exec.todo \ {u}
      OBVIOUS
    <2>3. exec' = [exec EXCEPT !.at = "check", !.cur = u, !.todo = T]
      BY <2>1, <2>2
    <2>4. exec.at = "pick" /\ exec'.at = "check" /\ exec'.todo = T
      BY <1>1, <1>4, <2>3 DEF Pick, Exec
    <2>5. Part(exec) = 1 /\ Part(exec') = 1
      BY <2>4, PartAt, PartValues
    <2>6. QED
      BY <1>1, <2>2, <2>4, <2>5, TakesNext
  <1>5. CASE Abandon
    BY <1>5, IdleBetween DEF Abandon
  <1>6. QED
    BY <1>2, <1>3, <1>4, <1>5

(* The loop is done with the page in hand. *)
LEMMA CommitNearer ==
  ASSUME TypeInv, NEW new, Commits(new), exec.at \in FetchSteps
  PROVE  Between \/ Nearer(exec', exec)
  <1>1. CASE exec' = Idle
    BY <1>1, IdleBetween
  <1>2. CASE exec' # Idle
    <2>1. exec' = [Idle EXCEPT !.at = "pick", !.todo = exec.todo, !.stale = exec.stale]
      BY <1>2, Zenon DEF Commits
    <2>2. exec'.at = "pick" /\ exec'.todo = exec.todo
      BY <2>1 DEF Idle
    <2>3. Part(exec) = 1 /\ Part(exec') = 1 /\ InHand(exec') = 0 /\ InHand(exec) \in 1 .. 6
      BY <2>2, PartAt, PartValues, StepsValues DEF FetchSteps
    <2>4. QED
      BY <2>2, <2>3 DEF Nearer, Ahead
  <1>3. QED
    BY <1>1, <1>2

LEMMA LoopNearer ==
  ASSUME TypeInv, PreCheck \/ Fetch \/ Settle \/ Remove \/ Removed \/ Replace \/ Index \/ Save
  PROVE  Between \/ Nearer(exec', exec)
  <1>1. exec \in Exec /\ exec.at \in FetchSteps
    BY DEF TypeInv, TypeOK, FetchSteps, PreCheck, Fetch, Settle, Remove, Removed, Replace,
           Index, Save
  <1>2. CASE \E new : Commits(new)
    BY <1>1, <1>2, CommitNearer
  <1>3. CASE exec' = Idle
    BY <1>3, IdleBetween
  <1>4. CASE /\ exec'.at \in FetchSteps /\ exec'.todo = exec.todo /\ exec'.visited = exec.visited
             /\ StepsIn[exec'.at] < StepsIn[exec.at]
    <2>1. Part(exec) = 1 /\ Part(exec') = 1 /\ InHand(exec') < InHand(exec)
      BY <1>1, <1>4, PartAt, PartValues DEF FetchSteps
    <2>2. QED
      BY <1>4, <2>1, WorksOn
  <1>5. CASE PreCheck
    <2>1. PICK t, h : \/ exec' = [exec EXCEPT !.at = "fetch", !.tag = t, !.hash = h]
                      \/ \E new : Commits(new)
                      \/ exec' = Idle
      BY <1>5, Zenon DEF PreCheck, Moves, Abandon
    <2>2. CASE exec' = [exec EXCEPT !.at = "fetch", !.tag = t, !.hash = h]
      <3>1. /\ exec.at = "check" /\ exec'.at = "fetch"
            /\ exec'.todo = exec.todo /\ exec'.visited = exec.visited
        BY <1>1, <1>5, <2>2 DEF PreCheck, Exec
      <3>2. QED
        BY <1>4, <3>1, StepsValues DEF FetchSteps
    <2>3. QED
      BY <1>2, <1>3, <2>1, <2>2
  <1>6. CASE Fetch
    <2>1. PICK a : exec' = [exec EXCEPT !.at = "answer", !.got = a]
      BY <1>6, Zenon DEF Fetch, Moves
    <2>2. /\ exec.at = "fetch" /\ exec'.at = "answer"
          /\ exec'.todo = exec.todo /\ exec'.visited = exec.visited
      BY <1>1, <1>6, <2>1 DEF Fetch, Exec
    <2>3. QED
      BY <1>4, <2>2, StepsValues DEF FetchSteps
  <1>7. CASE Settle \/ Removed \/ Save
    BY <1>2, <1>7, Zenon DEF Settle, Removed, Save
  <1>8. CASE Remove \/ Replace \/ Index
    <2>1. \/ exec.at = "answer" /\ exec' = [exec EXCEPT !.at = "remove"]
          \/ exec.at = "answer" /\ exec' = [exec EXCEPT !.at = "index"]
          \/ exec.at \in {"answer", "index"} /\ exec' = [exec EXCEPT !.at = "save", !.ok = TRUE]
          \/ exec.at \in {"answer", "index"} /\ exec' = [exec EXCEPT !.at = "save", !.ok = FALSE]
      BY <1>8, Zenon DEF Remove, Replace, Index
    <2>2. /\ exec'.at \in {"remove", "index", "save"} /\ exec.at \in {"answer", "index"}
          /\ exec.at = "index" => exec'.at = "save"
      BY <1>1, <2>1 DEF Exec
    <2>3. exec'.todo = exec.todo /\ exec'.visited = exec.visited
      BY <1>1, <2>1 DEF Exec
    <2>4. QED
      BY <1>4, <2>2, <2>3, StepsValues DEF FetchSteps
  <1>9. QED
    BY <1>5, <1>6, <1>7, <1>8

LEMMA OwnStepNearer ==
  ASSUME IsFiniteSet(Pages), PagesInv, TypeInv, Discover \/ FetchLoop
  PROVE  Between \/ Nearer(exec', exec)
  BY WalkNearer, YieldNearer, VisitNearer, UpsertNearer, ListNearer, LoopNearer
     DEF Discover, FetchLoop

(* Nobody else moves the executor, but for a crash. *)
LEMMA OthersAsFar ==
  ASSUME TypeInv, ~(Discover \/ FetchLoop), [Next]_vars
  PROVE  Between \/ AsFar(exec', exec)
  <1>1. exec \in Exec
    BY DEF TypeInv, TypeOK
  <1>2. CASE exec' = exec
    BY <1>2 DEF AsFar, Ahead, Part, InHand
  <1>3. CASE exec' = Idle
    BY <1>3, IdleBetween
  <1>4. CASE DeleteChunks \/ DeleteRow
    <2>1. PICK st : st = exec.stale \union {del}
      OBVIOUS
    <2>2. \/ exec' = exec
          \/ exec' = [exec EXCEPT !.ok = FALSE]
          \/ exec' = [exec EXCEPT !.stale = st]
      BY <1>4, <2>1, Zenon DEF DeleteChunks, DeleteRow
    <2>3. /\ exec'.at = exec.at /\ exec'.back = exec.back /\ exec'.todo = exec.todo
          /\ exec'.visited = exec.visited /\ exec'.queue = exec.queue
      BY <1>1, <2>2 DEF Exec
    <2>4. QED
      BY <2>3 DEF AsFar, Ahead, Part, InHand
  <1>5. CASE AddManual \/ MarkForRecrawl \/ SiteChanges \/ UNCHANGED vars
    BY <1>2, <1>5 DEF AddManual, MarkForRecrawl, SiteChanges, vars
  <1>6. CASE Crash
    BY <1>2, <1>3, <1>6 DEF Crash
  <1>7. QED
    BY <1>4, <1>5, <1>6 DEF Next

(* A crawl of finitely many pages ends after finitely many steps of its own, *)
(* however the links loop: each goes nearer to the end in a well-founded    *)
(* order, by the part, the pages ahead, the page in hand and the queue.  No *)
(* request, deletion or change of the site sets it back meanwhile.          *)
THEOREM CrawlAdvances ==
  ASSUME IsFiniteSet(Pages)
  PROVE  Spec => [][NoCrawlBack /\ CrawlGoesOn]_vars
  <1>1. ASSUME PagesInv, TypeInv, [Next]_vars
        PROVE  [NoCrawlBack /\ CrawlGoesOn]_vars
    BY <1>1, OwnStepNearer, OthersAsFar DEF NoCrawlBack, CrawlGoesOn
  <1>2. PagesInv /\ TypeInv /\ [Next]_vars => TypeInv'
    BY StepTyped
  <1>3. QED
    BY <1>1, <1>2, InitTyped, PagesInvariant, PTL DEF Spec

================================================================================
