---- MODULE PagedFetch ----
(* The two readers of paged tables: the loader of the source adapter reads the
   ERP (HTTPSourceReader), the extractor of the ETL reads the source adapter.
   Both retry a request, follow X-Next-Cursor and stop where it is empty; they
   differ in the answers they retry, in what they take for the end and in the
   bearer token of the second. *)
EXTENDS Naturals, Sequences

CONSTANTS
    MaxPages,    \* bound: pages of a table
    RetryMax,    \* attempts after the first
    TTL,         \* lifetime of a token, in durations of an attempt
    Leeway,      \* a token is renewed so long before it expires
    MaxClock     \* bound: time of a behaviour

ASSUME PagedFetchAssumption ==
    /\ {MaxPages, RetryMax, TTL, Leeway, MaxClock} \subseteq Nat
    /\ RetryMax <= Leeway /\ Leeway < TTL

VARIABLES
    reader,     \* "loader" or "extractor"
    pages,      \* pages of the table, the last may be empty
    cursor,     \* page the next request asks for
    attempt,    \* 0 between requests, else the number of the attempt
    got,        \* pages handed on so far
    fetch,      \* "reading", "done" or "failed"
    cut,        \* an answer other than a page was taken for the end
    clock,
    tokenExp    \* cachedExp, 0 before the first token

fetchVars == <<reader, pages, cursor, attempt, got, fetch, cut, clock, tokenExp>>

TokenUntilExpiry ==
    IF clock < tokenExp THEN UNCHANGED tokenExp ELSE tokenExp' = clock + TTL

(* The cached token unless it is about to expire. *)
Token == IF clock + Leeway < tokenExp THEN UNCHANGED tokenExp ELSE tokenExp' = clock + TTL

(* A page is asked for: the extractor takes a token for all attempts. *)
StartRequest ==
    /\ fetch = "reading"
    /\ attempt = 0
    /\ attempt' = 1
    /\ IF reader = "extractor" THEN Token ELSE UNCHANGED tokenExp
    /\ UNCHANGED <<reader, pages, cursor, got, fetch, cut, clock>>

(* The answers that are worth another attempt.  501 is one of the 5xx to the
   loader and an answer to the extractor. *)
Retryable == {"network", "5xx", "429"} \cup (IF reader = "loader" THEN {"501"} ELSE {})
TakenForTheEnd == IF reader = "loader" THEN {} ELSE {"404", "501"}
Answers == {"page", "broken page", "canceled", "4xx", "network", "5xx", "429", "404", "501"}
    \cup (IF reader = "extractor" /\ cursor = 1 THEN {"304"} ELSE {})

Retry(answer) ==
    /\ answer \in Retryable
    /\ IF attempt <= RetryMax
       THEN attempt' = attempt + 1 /\ UNCHANGED fetch
       ELSE attempt' = 0 /\ fetch' = "failed"
    /\ UNCHANGED <<cursor, got, cut>>

NextPage(answer) ==
    /\ answer = "page"
    /\ got' = Append(got, cursor)
    /\ attempt' = 0
    /\ IF cursor < pages
       THEN cursor' = cursor + 1 /\ UNCHANGED fetch
       ELSE fetch' = "done" /\ UNCHANGED cursor
    /\ UNCHANGED cut

EmptyStream(answer) ==
    /\ answer \in TakenForTheEnd \cup {"304"}
    /\ fetch' = "done"
    /\ cut' = TRUE
    /\ attempt' = 0
    /\ UNCHANGED <<cursor, got>>

GiveUp(answer) ==
    /\ answer \notin Retryable \cup TakenForTheEnd \cup {"page", "304"}
    /\ fetch' = "failed"
    /\ attempt' = 0
    /\ UNCHANGED <<cursor, got, cut>>

(* One attempt, which takes no time or one unit of it.  A token that has
   expired is refused. *)
Do ==
    /\ fetch = "reading"
    /\ attempt > 0
    /\ \E answer \in Answers :
         IF reader = "extractor" /\ clock >= tokenExp
         THEN GiveUp("401")
         ELSE Retry(answer) \/ NextPage(answer) \/ EmptyStream(answer) \/ GiveUp(answer)
    /\ clock' \in {clock, clock + 1}
    /\ clock' <= MaxClock
    /\ UNCHANGED <<reader, pages, tokenExp>>

(* The extractor hands rows on while it reads; the loader takes up a page only
   when it has them all. *)
Elapse ==
    /\ fetch = "reading" /\ attempt = 0 /\ clock < MaxClock
    /\ clock' = clock + 1
    /\ UNCHANGED <<reader, pages, cursor, attempt, got, fetch, cut, tokenExp>>

FetchInit ==
    /\ reader \in {"loader", "extractor"}
    /\ pages \in 1..MaxPages
    /\ cursor = 1 /\ attempt = 0 /\ got = <<>> /\ fetch = "reading" /\ cut = FALSE
    /\ clock = 0 /\ tokenExp = 0
FetchIdle ==
    /\ reader = "loader" /\ pages = 1 /\ cursor = 1 /\ attempt = 0 /\ got = <<1>>
    /\ fetch = "done" /\ cut = FALSE /\ clock = 0 /\ tokenExp = 0

FetchNext == StartRequest \/ Do \/ Elapse

PagesInOrder(n) == got = [i \in 1..n |-> i]

(* A table that was read has all its pages, each once and in order, whatever
   was retried; the loader accepts nothing less, the extractor takes 304 on the
   first page and 404 or 501 on any for the end.  And no attempt of a request
   carries an expired token: the attempts fit into the leeway. *)
FetchSound ==
    /\ \E n \in 0..pages : PagesInOrder(n)
    /\ (fetch = "done" /\ ~cut) => PagesInOrder(pages)
    /\ cut => reader = "extractor"
    /\ (reader = "extractor" /\ attempt > 0) => clock < tokenExp
====
