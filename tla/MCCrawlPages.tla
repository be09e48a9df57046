---------------------------- MODULE MCCrawlPages ----------------------------
(* Instances of CrawlPages: a front page the policy names and the crawl      *)
(* starts at, and a secret page that robots.txt disallows, which the front   *)
(* page links to and the sitemap lists.                                      *)
EXTENDS CrawlPages
CONSTANTS front, secret
MCSays == [u \in Pages |-> IF u = secret THEN {"v1", "gone"} ELSE {"v1", "v2"}]
MCLinks == [u \in Pages |-> IF u = front THEN <<secret, front>> ELSE <<>>]
=============================================================================
