-------------------------------- MODULE KvScrape -------------------------------
(***************************************************************************)
(* The /metrics endpoint (kv-server main.rs, Metrics::encode): a task that *)
(* gathers the counters one family after the other while the handlers of   *)
(* KvServer move them. No lock makes a scrape one moment's picture.        *)
(***************************************************************************)
EXTENDS KvServerInv

VARIABLES
  scrape,   \* the families gathered so far, with the values they had
  begun     \* history: the replies given when the scrape began

scraping == <<scrape, begun>>

Families == DOMAIN NewMetrics

\* The first request for /metrics is there from the beginning.
ScrapeInit == Init /\ scrape = <<>> /\ begun = replies

\* registry.gather() collects one family, in the order of a hash map.
Gather(family) ==
  /\ family \notin DOMAIN scrape
  /\ scrape' = [f \in DOMAIN scrape \cup {family} |-> IF f = family THEN metrics[f] ELSE scrape[f]]
  /\ UNCHANGED <<vars, begun>>

\* Seeded fault: a request is answered with the families of the one before.
BeginScrape_cached ==
  /\ DOMAIN scrape = Families
  /\ begun' = replies
  /\ UNCHANGED <<vars, scrape>>

\* The answer is sent, and the next request arrives.
BeginScrape ==
  /\ DOMAIN scrape = Families
  /\ scrape' = <<>>
  /\ begun' = replies
  /\ UNCHANGED vars

ScrapeNext ==
  \/ Next /\ UNCHANGED scraping
  \/ \E family \in Families : Gather(family)
  \/ BeginScrape

ScrapeSpec == ScrapeInit /\ [][ScrapeNext]_<<vars, scraping>>

\* The runtime keeps polling a handler, which never waits for anything, whatever
\* the task that answers /metrics does.
FairScrapeSpec ==
  ScrapeSpec /\ \A c \in Clients : WF_<<vars, scraping>>(Handle(c) /\ UNCHANGED scraping)

\* The replies that a counter of calls counts.
CountedBy(family) == IF family = "errors" THEN "err" ELSE "ok"

\* A scrape is no picture of one moment, but it is right about the calls: each
\* counter in it lies between the replies given when the scrape began and those
\* given by now, the calls in progress included.
ScrapeMatchesReplies ==
  \A f \in DOMAIN scrape \ {"hits", "misses"} :
    scrape[f] \in begun[CountedBy(f)]..replies[CountedBy(f)] + Cardinality(InFlight)

\* What has been gathered is not more than the counters are now, and counts at
\* least the calls that had been answered when the scrape began.
GatheredInv ==
  /\ begun \in [{"ok", "err", "health"} -> Nat]
  /\ \A outcome \in DOMAIN begun : begun[outcome] <= replies[outcome]
  /\ DOMAIN scrape \subseteq Families
  /\ \A f \in DOMAIN scrape : scrape[f] \in Nat /\ scrape[f] <= metrics[f]
  /\ \A f \in DOMAIN scrape \ {"hits", "misses"} : begun[CountedBy(f)] <= scrape[f]

\* The inductive invariant of the endpoint and the handlers (metrics.rs encode).
ScrapeInv == IInv /\ GatheredInv

===============================================================================
