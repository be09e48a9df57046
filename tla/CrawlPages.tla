------------------------------ MODULE CrawlPages ------------------------------
(***************************************************************************)
(* The life of the pages of one domain: the domain_url rows, the chunks    *)
(* the domain's silo holds for each page, the executor that discovers and  *)
(* fetches pages for a crawl job, and the requests that add, delete and    *)
(* mark a page while it does so.                                           *)
(*                                                                         *)
(* The requests are served by other processes, so they take effect between *)
(* any two commits of the executor's session.  A row object the executor   *)
(* has loaded and another session deletes makes its next commit fail: the  *)
(* job is abandoned (the queue's recovery is the subject of CrawlJobs).    *)
(***************************************************************************)
EXTENDS Naturals, Sequences, FiniteSets

CONSTANTS Pages,       \* normalised URLs
          Contents,    \* texts a page may show
          Manual,      \* CrawlPolicy.manual_urls
          Sitemap,     \* locations of the policy's sitemap
          Dated,       \* sitemap locations that carry a lastmod
          Seed,        \* CrawlPolicy.seed_url, or NoPage
          Links,       \* Links[u]: the links of u, in the order of its HTML
          MaxDepth,    \* CrawlPolicy.max_depth
          Disallowed,  \* pages that robots.txt, the globs or the host exclude
          Says,        \* Says[u]: what the site may answer for u
          Tagged,      \* pages the site serves with an ETag
          NoPage, None,
          Touched,     \* bound: the pages that requests concern
          Faults       \* which of "silo", "site" and "crash" may happen

Other == {"gone", "down", "refused", "blank"}

ASSUME PagesAssumption == NoPage \notin Pages
ASSUME ContentsAssumption == None \notin Contents /\ Contents \intersect Other = {}
ASSUME SourcesAssumption ==
  /\ Manual \subseteq Pages /\ Sitemap \subseteq Pages /\ Dated \subseteq Sitemap
  /\ Disallowed \subseteq Pages /\ Tagged \subseteq Pages
  /\ Seed \in Pages \union {NoPage}
  /\ Links \in [Pages -> Seq(Pages)]
  /\ Says \in [Pages -> SUBSET (Contents \union Other)]
  /\ MaxDepth \in Nat
  /\ Touched \subseteq Pages
  /\ Faults \subseteq {"silo", "site", "crash"}

VARIABLES web,    \* what the site answers for each page
          row,    \* domain_url rows
          silo,   \* texts whose chunks the silo holds under each url
          exec,   \* the executor
          del,    \* delete_url request between its silo call and its commit
          asked,  \* history: pages a user or the policy named
          lost    \* history: pages whose chunks went while row.hash stayed

vars == <<web, row, silo, exec, del, asked, lost>>

Answers == Contents \union Other
Hashes == Contents \union {None, "blank"}
Status == {"PENDING", "CRAWLING", "INDEXED", "FAILED", "REMOVED", "EXCLUDED"}
Source == {"MANUAL", "SITEMAP", "CRAWL"}
Row == [status : Status, via : Source, dated : BOOLEAN, indexed : BOOLEAN,
        hash : Hashes, etag : Hashes]
NoRow == [status |-> "none"]

SourcePriority_SitemapFirst(via) ==
  CASE via = "SITEMAP" -> 0 [] via = "MANUAL" -> 1 [] OTHER -> 2

SourcePriority(via) == CASE via = "MANUAL" -> 0 [] via = "SITEMAP" -> 1 [] OTHER -> 2

Steps == {"idle", "manual", "sitemap", "crawl", "upsert", "expand", "list", "pick",
          "check", "fetch", "answer", "remove", "index", "save"}

(* seen is existing_normalized; todo what is left of the list being walked;  *)
(* cur the page in hand and back the step its upsert returns to; known says  *)
(* the upsert found a row; hash and tag are those loaded before the fetch, got the  *)
(* answer, ok that the silo holds its text; stale the row objects that were  *)
(* deleted under the session.                                                *)
Exec == [at : Steps, seen : SUBSET Pages, todo : SUBSET Pages, back : Steps,
         queue : Seq(Pages \X Nat), visited : SUBSET Pages, depth : Nat,
         cur : Pages \union {NoPage}, via : Source, excluded : BOOLEAN,
         known : BOOLEAN, hash : Hashes, tag : Hashes, got : Answers, ok : BOOLEAN,
         stale : SUBSET Pages]

Idle == [at |-> "idle", seen |-> {}, todo |-> {}, back |-> "idle", queue |-> <<>>,
         visited |-> {}, depth |-> 0, cur |-> NoPage, via |-> "CRAWL",
         excluded |-> FALSE, known |-> FALSE, hash |-> None, tag |-> None,
         got |-> "down", ok |-> FALSE, stale |-> {}]

TypeOK ==
  /\ web \in [Pages -> Answers]
  /\ row \in [Pages -> Row \union {NoRow}]
  /\ silo \in [Pages -> SUBSET Contents]
  /\ exec \in Exec
  /\ del \in Pages \union {NoPage}
  /\ asked \subseteq Pages /\ lost \subseteq Pages

Init ==
  /\ web \in {w \in [Pages -> Answers] : \A u \in Pages : w[u] \in Says[u]}
  /\ row = [u \in Pages |-> NoRow]
  /\ silo = [u \in Pages |-> {}]
  /\ exec = Idle
  /\ del = NoPage
  /\ asked = Manual /\ lost = {}

-----------------------------------------------------------------------------
(* Discovery *)

(* Any commit of a session that holds a deleted row fails, and the handler of *)
(* run_job cannot use that session either: the job is left as it is.         *)
Abandon == exec' = Idle /\ UNCHANGED <<web, row, silo, del, asked, lost>>

(* The executor's own step, which touches nothing else. *)
Moves(next) == exec' = next /\ UNCHANGED <<web, row, silo, del, asked, lost>>

Known == {u \in Pages : row[u] # NoRow}

Begin ==
  /\ exec.at = "idle"
  /\ Moves([Idle EXCEPT !.at = "manual", !.seen = Known, !.todo = Manual \ Known])

(* A candidate is yielded and its row looked up. *)
Yield(from, u, via, excluded) ==
  Moves([from EXCEPT !.at = "upsert", !.cur = u, !.via = via, !.excluded = excluded,
                     !.seen = @ \union {u}, !.known = row[u] # NoRow, !.stale = {}])

YieldManual ==
  /\ exec.at = "manual"
  /\ \E u \in exec.todo :
       Yield([exec EXCEPT !.todo = @ \ {u}, !.back = "manual"], u, "MANUAL", FALSE)

(* The sitemap is fetched when the manual urls are done. *)
ReadSitemap ==
  /\ exec.at = "manual" /\ exec.todo = {}
  /\ \E locs \in {Sitemap} \union (IF "site" \in Faults THEN {{}} ELSE {}) :
       Moves([exec EXCEPT !.at = "sitemap", !.todo = locs \ exec.seen])

YieldSitemap_NoRobots ==
  /\ exec.at = "sitemap"
  /\ \E u \in exec.todo :
       Yield([exec EXCEPT !.todo = @ \ {u}, !.back = "sitemap"], u, "SITEMAP", FALSE)

YieldSitemap ==
  /\ exec.at = "sitemap"
  /\ \E u \in exec.todo :
       Yield([exec EXCEPT !.todo = @ \ {u}, !.back = "sitemap"],
             u, "SITEMAP", u \in Disallowed)

StartCrawl ==
  /\ exec.at = "sitemap" /\ exec.todo = {}
  /\ IF Seed = NoPage
     THEN Moves([exec EXCEPT !.at = "list"])
     ELSE Moves([exec EXCEPT !.at = "crawl", !.queue = <<<<Seed, 0>>>>])

(* Breadth first: a page in hand is yielded once, then its links are read    *)
(* unless it is excluded or at the depth limit.                              *)
Visit ==
  /\ exec.at = "crawl" /\ exec.queue # <<>>
  /\ LET u == Head(exec.queue)[1]
         after == IF u \in Disallowed THEN "crawl" ELSE "expand"
         popped == [exec EXCEPT !.queue = Tail(@), !.visited = @ \union {u},
                                !.depth = Head(exec.queue)[2]]
     IN  IF u \in exec.visited THEN Moves([exec EXCEPT !.queue = Tail(@)])
         ELSE IF u \in exec.seen
         THEN Moves([popped EXCEPT !.at = after, !.cur = IF after = "expand" THEN u ELSE @])
         ELSE Yield([popped EXCEPT !.back = after], u, "CRAWL", u \in Disallowed)

(* The links of the page in hand that the walk has not visited, by their     *)
(* place in its HTML; they join the queue in that order.                     *)
Unvisited == {i \in DOMAIN Links[exec.cur] : Links[exec.cur][i] \notin exec.visited}

Nth(places, k) == CHOOSE i \in places : Cardinality({h \in places : h <= i}) = k

Deeper ==
  [k \in 1 .. Cardinality(Unvisited) |->
     <<Links[exec.cur][Nth(Unvisited, k)], exec.depth + 1>>]

Expand ==
  /\ exec.at = "expand"
  /\ LET reads == exec.depth < MaxDepth /\ web[exec.cur] \in Contents \union {"blank"}
     IN  Moves([exec EXCEPT !.at = "crawl", !.queue = IF reads THEN @ \o Deeper ELSE @,
                            !.cur = NoPage, !.depth = 0])

EndCrawl ==
  /\ exec.at = "crawl" /\ exec.queue = <<>>
  /\ Moves([exec EXCEPT !.at = "list"])

(* The candidate's row is inserted, or the row that was found is updated: a  *)
(* better source and an exclusion are recorded.  A row that came or went     *)
(* since the lookup makes the commit fail.                                   *)
Upsert ==
  /\ exec.at = "upsert"
  /\ LET u == exec.cur
         dated == exec.via = "SITEMAP" /\ u \in Dated
         inserted == [status |-> IF exec.excluded THEN "EXCLUDED" ELSE "PENDING",
                      via |-> exec.via, dated |-> dated, indexed |-> FALSE,
                      hash |-> None, etag |-> None]
         updated == [row[u] EXCEPT
                      !.via = IF SourcePriority(exec.via) < SourcePriority(@) THEN exec.via ELSE @,
                      !.dated = @ \/ dated,
                      !.status = IF exec.excluded THEN "EXCLUDED" ELSE @]
         fails == IF exec.known THEN u \in exec.stale ELSE row[u] # NoRow
     IN  IF fails
         THEN Abandon
         ELSE /\ row' = [row EXCEPT ![u] = IF exec.known THEN updated ELSE inserted]
              /\ exec' = [exec EXCEPT !.at = exec.back, !.via = Idle.via, !.excluded = FALSE,
                            !.known = FALSE, !.cur = IF exec.back = "expand" THEN u ELSE NoPage]
              /\ UNCHANGED <<web, silo, del, asked, lost>>

-----------------------------------------------------------------------------
(* The fetch loop *)

List_Everything ==
  /\ exec.at = "list"
  /\ Moves([Idle EXCEPT !.at = "pick", !.todo = Known])

List_PendingOnly ==
  /\ exec.at = "list"
  /\ Moves([Idle EXCEPT !.at = "pick", !.todo = {u \in Known : row[u].status = "PENDING"}])

Fetchable == {u \in Known : row[u].status \notin {"REMOVED", "EXCLUDED"}}

List ==
  /\ exec.at = "list"
  /\ Moves([Idle EXCEPT !.at = "pick", !.todo = Fetchable])

Finish ==
  /\ exec.at = "pick" /\ exec.todo = {}
  /\ Moves(Idle)

Holds_Unchecked(u) == u \in Pages

(* The row object the executor loaded for u is still a row of the table. *)
Holds(u) == u \notin exec.stale

(* The executor's commit of what it made of the page in hand. *)
Commits(new) ==
  LET u == exec.cur
  IN  /\ IF Holds(u)
         THEN /\ row' = [row EXCEPT ![u] = new]
              /\ exec' = [Idle EXCEPT !.at = "pick", !.todo = exec.todo, !.stale = exec.stale]
         ELSE row' = row /\ exec' = Idle
      /\ UNCHANGED <<web, silo, del, asked>>

Pick ==
  /\ exec.at = "pick"
  /\ \E u \in exec.todo :
       IF Holds(u)
       THEN /\ row' = [row EXCEPT ![u].status = "CRAWLING"]
            /\ exec' = [exec EXCEPT !.at = "check", !.cur = u, !.todo = @ \ {u}]
            /\ UNCHANGED <<web, silo, del, asked, lost>>
       ELSE Abandon

(* The sitemap pre-check reads the row back after that commit.  The lastmod  *)
(* of a row is the one it was discovered with, which is before any indexing. *)
Skippable(r) == r.dated /\ r.indexed /\ r.status # "PENDING"

PreCheck ==
  /\ exec.at = "check"
  /\ LET r == row[exec.cur]
     IN  IF ~Holds(exec.cur) THEN Abandon
         ELSE IF Skippable(r)
         THEN Commits([r EXCEPT !.status = "INDEXED"]) /\ UNCHANGED lost
         ELSE Moves([exec EXCEPT !.at = "fetch", !.tag = r.etag, !.hash = r.hash])

(* The conditional GET.  A timeout is an answer of status 0. *)
Fetch ==
  /\ exec.at = "fetch"
  /\ \E a \in {web[exec.cur]} \union (IF "site" \in Faults THEN {"down"} ELSE {}) :
       Moves([exec EXCEPT !.at = "answer", !.got = a])

Served == exec.got \in Contents \union {"blank"}
Unmodified == Served /\ exec.tag = exec.got
Unchanged == exec.got \in Contents /\ ~Unmodified /\ exec.hash = exec.got
Tag == IF exec.cur \in Tagged THEN exec.got ELSE None

(* What an answer that leaves the silo alone makes of the row: 304, the text *)
(* of the stored hash, a failure, a page without text, any other answer.     *)
Settled(r) ==
  CASE Unmodified -> [r EXCEPT !.status = "INDEXED"]
    [] Unchanged -> [r EXCEPT !.status = "INDEXED", !.etag = IF Tag = None THEN @ ELSE Tag]
    [] exec.got = "down" -> [r EXCEPT !.status = "FAILED"]
    [] exec.got = "blank" /\ ~Unmodified ->
         [r EXCEPT !.status = "INDEXED", !.hash = "blank", !.etag = Tag, !.indexed = TRUE]
    [] OTHER -> r

Settle ==
  /\ exec.at = "answer"
  /\ Unmodified \/ Unchanged \/ exec.got \in {"down", "blank", "refused"}
  /\ Commits(Settled(row[exec.cur]))
  /\ UNCHANGED lost

(* 404 or 410: the chunks are deleted, the hash and the validator stay. *)
Remove ==
  /\ exec.at = "answer" /\ exec.got = "gone"
  /\ \/ /\ silo' = [silo EXCEPT ![exec.cur] = {}]
        /\ lost' = lost \union {exec.cur}
     \/ "silo" \in Faults /\ UNCHANGED <<silo, lost>>
  /\ exec' = [exec EXCEPT !.at = "remove"]
  /\ UNCHANGED <<web, row, del, asked>>

Removed ==
  /\ exec.at = "remove"
  /\ Commits([row[exec.cur] EXCEPT !.status = "REMOVED"])
  /\ UNCHANGED lost

Replace_KeepsOld ==
  /\ exec.at = "answer" /\ exec.got \in Contents /\ ~Unmodified /\ ~Unchanged
  /\ exec' = [exec EXCEPT !.at = "index"]
  /\ lost' = lost \union {exec.cur}
  /\ UNCHANGED <<web, row, silo, del, asked>>

Replace_HashOnly ==
  /\ exec.at = "answer" /\ exec.got \in Contents /\ ~Unmodified /\ ~Unchanged
  /\ exec' = [exec EXCEPT !.at = "save"]
  /\ UNCHANGED <<web, row, silo, del, asked, lost>>

(* A new text: delete_url, then index_single_content; an error of either is  *)
(* logged and the row is written all the same.                               *)
Replace ==
  /\ exec.at = "answer" /\ exec.got \in Contents /\ ~Unmodified /\ ~Unchanged
  /\ \/ /\ silo' = [silo EXCEPT ![exec.cur] = {}]
        /\ exec' = [exec EXCEPT !.at = "index"]
     \/ "silo" \in Faults /\ silo' = silo /\ exec' = [exec EXCEPT !.at = "save", !.ok = FALSE]
  /\ lost' = lost \union {exec.cur}
  /\ UNCHANGED <<web, row, del, asked>>

Index ==
  /\ exec.at = "index"
  /\ \/ /\ silo' = [silo EXCEPT ![exec.cur] = @ \union {exec.got}]
        /\ exec' = [exec EXCEPT !.at = "save", !.ok = TRUE]
     \/ "silo" \in Faults /\ silo' = silo /\ exec' = [exec EXCEPT !.at = "save", !.ok = FALSE]
  /\ UNCHANGED <<web, row, del, asked, lost>>

Save ==
  /\ exec.at = "save"
  /\ Commits([row[exec.cur] EXCEPT !.status = "INDEXED", !.hash = exec.got,
                !.etag = Tag, !.indexed = TRUE])
  /\ lost' = IF exec.ok /\ Holds(exec.cur) THEN lost \ {exec.cur} ELSE lost

-----------------------------------------------------------------------------
(* Requests, the site, crashes *)

(* POST urls: the row is inserted, or set back to a pending manual one.  A   *)
(* race with another session fails it and changes nothing.                   *)
AddManual ==
  /\ \E u \in Touched :
       /\ row' = [row EXCEPT ![u] =
            IF @ = NoRow
            THEN [status |-> "PENDING", via |-> "MANUAL", dated |-> FALSE,
                  indexed |-> FALSE, hash |-> None, etag |-> None]
            ELSE [@ EXCEPT !.status = "PENDING", !.via = "MANUAL"]]
       /\ asked' = asked \union {u}
  /\ UNCHANGED <<web, silo, exec, del, lost>>

(* POST recrawl. *)
MarkForRecrawl ==
  /\ \E u \in Touched :
       /\ row[u] # NoRow
       /\ row' = [row EXCEPT ![u].status = "PENDING"]
       /\ asked' = asked \union {u}
  /\ UNCHANGED <<web, silo, exec, del, lost>>

(* DELETE url: the chunks first, then the row; an error of the first is      *)
(* logged only.                                                              *)
DeleteChunks ==
  /\ del = NoPage
  /\ \E u \in Touched :
       /\ row[u] # NoRow
       /\ del' = u
       /\ \/ /\ silo' = [silo EXCEPT ![u] = {}]
             /\ lost' = lost \union {u}
             /\ exec' = IF exec.cur = u THEN [exec EXCEPT !.ok = FALSE] ELSE exec
          \/ "silo" \in Faults /\ UNCHANGED <<silo, lost, exec>>
  /\ UNCHANGED <<web, row, asked>>

DeleteRow ==
  /\ del # NoPage
  /\ row' = [row EXCEPT ![del] = NoRow]
  /\ exec' = IF exec.cur = del \/ del \in exec.todo
             THEN [exec EXCEPT !.stale = @ \union {del}] ELSE exec
  /\ lost' = lost \ {del}
  /\ del' = NoPage
  /\ UNCHANGED <<web, silo, asked>>

SiteChanges ==
  /\ \E u \in Pages : \E a \in Says[u] : web' = [web EXCEPT ![u] = a]
  /\ UNCHANGED <<row, silo, exec, del, asked, lost>>

(* The executor's process, or the one serving the deletion, dies.  A cancelled *)
(* job, which the loop notices before its next page, ends the same way.      *)
Crash ==
  /\ "crash" \in Faults
  /\ \/ exec # Idle /\ exec' = Idle /\ del' = del
     \/ del # NoPage /\ del' = NoPage /\ exec' = exec
  /\ UNCHANGED <<web, row, silo, asked, lost>>

Discover ==
  \/ Begin \/ YieldManual \/ ReadSitemap \/ YieldSitemap \/ StartCrawl
  \/ Visit \/ Expand \/ EndCrawl \/ Upsert

FetchLoop ==
  \/ List \/ Finish \/ Pick \/ PreCheck \/ Fetch \/ Settle
  \/ Remove \/ Removed \/ Replace \/ Index \/ Save

Next ==
  \/ Discover \/ FetchLoop
  \/ AddManual \/ MarkForRecrawl \/ DeleteChunks \/ DeleteRow
  \/ SiteChanges \/ Crash

Spec == Init /\ [][Next]_vars

(* The queue starts a crawl of the domain again and again (the scheduler and *)
(* the recovery, see CrawlJobs), and an executor runs until its job ends.    *)
Fairness == WF_vars(Discover \/ FetchLoop)
FairSpec == Spec /\ Fairness

-----------------------------------------------------------------------------
(* Properties *)

(* The silo never holds two versions of a page, whatever fails, crashes or is *)
(* deleted between the delete and the index of a replacement.                *)
SiloHoldsOneVersion == \A u \in Pages : Cardinality(silo[u]) <= 1

(* A row that says INDEXED tells the truth: unless a replacement of the page *)
(* failed or was interrupted, or its chunks were removed, the silo holds the *)
(* text of its hash, though requests and the loop write the same row.        *)
IndexedIsInSilo ==
  \A u \in Pages \ lost :
    row[u] # NoRow /\ row[u].status = "INDEXED" /\ row[u].hash \in Contents
      => silo[u] = {row[u].hash}

(* A page that robots.txt or the filters exclude reaches the silo only when  *)
(* a user or the policy named it, by whatever source it is found again.      *)
DisallowedOnlyOnRequest == \A u \in Disallowed \ asked : silo[u] = {}

(* A page once found gone, or excluded, is fetched again only because a user *)
(* asked for it: no later crawl revives the row by itself.                   *)
OnlyRequestsRevive ==
  [][\A u \in Pages :
       row[u] # NoRow /\ row'[u] # NoRow /\ row[u].status \in {"REMOVED", "EXCLUDED"}
         => row'[u].status \in {row[u].status, "EXCLUDED"} \/ u \in asked']_vars

(* A row a user added stays a manual one when a crawl that had not seen it   *)
(* discovers the same page by the sitemap or by a link.                      *)
ManualStaysManual ==
  [][\A u \in Pages :
       row[u] # NoRow /\ row'[u] # NoRow /\ row[u].via = "MANUAL" => row'[u].via = "MANUAL"]_vars

(* A text the site goes on serving reaches the silo, whatever happened       *)
(* before: once the page's row is one that crawls fetch, its replacement     *)
(* does not fail, the site answers and crawls of the domain run to the end.  *)
(* A page with a lastmod is left out: PreCheck never fetches it again.       *)
Settling(u, c) ==
  /\ web[u] = c /\ row[u] # NoRow /\ row[u].status \notin {"REMOVED", "EXCLUDED"}
  /\ ~row[u].dated /\ u \notin lost /\ del = NoPage
  /\ exec.at = "answer" /\ exec.cur = u => exec.got = c
StableTextIsIndexed ==
  \A u \in Pages, c \in Contents :
    <>[][exec' = Idle => exec.at = "pick" /\ exec.todo = {}]_exec /\ <>[]Settling(u, c)
      => <>(silo[u] = {c})

=============================================================================
