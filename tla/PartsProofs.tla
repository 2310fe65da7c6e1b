---- MODULE PartsProofs ----
(* Proofs about Parts, for every value of the constants: exports, the life of the
   processes, the readers of paged tables, and the pages of one table. *)
EXTENDS Parts, FiniteSetTheorems, SequenceTheorems, WellFoundedInduction, TLAPS

---------------------------------------------------------------------------
(* Exports.  Until an export expires the cleaner leaves it alone, and the meta
   file says ready only after the body was copied. *)
ExportTypeOK ==
    /\ meta \in {"absent", "torn", "pending", "ready", "failed"}
    /\ body \in {"absent", "partial", "whole"}
    /\ writer \in {"none", "pending", "create", "copy", "ready", "failed", "done"}
    /\ expired \in BOOLEAN
    /\ cleaner \in {"idle", "delete body", "delete meta"}

BodyBeforeMeta ==
    ~expired =>
        /\ cleaner = "idle"
        /\ writer \in {"none", "pending", "create", "copy"} => meta # "ready"
        /\ writer = "copy" => body # "absent"
        /\ writer = "ready" => body = "whole"
        /\ meta = "ready" => body = "whole"

ExportInv == ExportTypeOK /\ BodyBeforeMeta

LEMMA ExportsKeep ==
  ASSUME ExportInv, ExportsNext
  PROVE  ExportInv'
<1> USE DEF ExportInv, ExportTypeOK, BodyBeforeMeta
<1>1. CASE StartExport /\ UNCHANGED <<expired, cleaner>>
  BY <1>1 DEF StartExport, WriteMeta
<1>2. CASE RunAsync /\ UNCHANGED <<expired, cleaner>>
  BY <1>2 DEF RunAsync, Put, CreateBody, CopyBody, WriteMeta
<1>3. CASE Cleanup
  BY <1>3 DEF Cleanup, ListExpired, Delete
<1>4. CASE (writer # "none" /\ Expire) \/ CrashExports
  BY <1>4 DEF Expire, CrashExports
<1> QED
  BY <1>1, <1>2, <1>3, <1>4 DEF ExportsNext

---------------------------------------------------------------------------
(* The life of a process.  Nothing comes in once the server drains, and what the
   shutdown did not wait for is on record by the time the pool is closed. *)
AppTypeOK ==
    /\ app \in DOMAIN Apps \cup {"none"}
    /\ app = "none" => stage = "ended"
    /\ requests \in Nat
    /\ sched \in {"none", "idle", "ticking"}
    /\ pool \in {"none", "open", "closed"}

ShutInOrder ==
    /\ pool = "closed" => stage = "closed"
    /\ stage \in {"drain", "close", "closed"} /\ sched = "ticking" => "tick" \in gaveUp
    /\ stage \in {"close", "closed"} =>
          requests = 0 \/ (app = "etl" /\ "request" \in gaveUp)

AppInv == AppTypeOK /\ ShutInOrder

(* What New may come to, for any of the processes. *)
LEMMA AppResults ==
  ASSUME NEW a \in DOMAIN Apps, NEW outcome \in Apps[a]
  PROVE  outcome \in {"idle", "none", "error"}
BY DEF Apps, NewSourceAdapter, NewEtl, NewMarts, NewForecast, NewKpi, NewOrders, NewChannels

LEMMA AppKeeps ==
  ASSUME AppInv, AppNext
  PROVE  AppInv'
<1> USE DEF AppInv, AppTypeOK, ShutInOrder
<1>1. CASE NewApp
  <2>1. app \in DOMAIN Apps
    BY <1>1 DEF NewApp
  <2>2. PICK outcome \in Apps[app] :
          IF outcome = "error"
          THEN stage' = "ended" /\ UNCHANGED <<sched, pool>>
          ELSE stage' = "built" /\ sched' = outcome /\ pool' = "open"
    BY <1>1 DEF NewApp
  <2>3. outcome \in {"idle", "none", "error"}
    BY <2>1, <2>2, AppResults
  <2>4. stage = "new" /\ UNCHANGED <<app, requests, gaveUp>>
    BY <1>1 DEF NewApp
  <2> QED
    BY <2>1, <2>2, <2>3, <2>4
<1>2. CASE Run
  <2>1. stage' \in {"serving", "ended"} /\ sched' \in {sched, "none"} /\ stage = "built"
    BY <1>2 DEF Run
  <2> QED
    BY <1>2, <2>1 DEF Run
<1>3. CASE ListenFails
  BY <1>3 DEF ListenFails
<1>4. CASE Signal
  BY <1>4 DEF Signal
<1>5. CASE Request
  <2>1. stage \in {"serving", "stop scheduler"}
    BY <1>5, Zenon DEF Request
  <2>2. requests + 1 \in Nat
    OBVIOUS
  <2>3. requests' = requests + 1 /\ UNCHANGED <<app, stage, sched, pool, gaveUp>>
    BY <1>5, Zenon DEF Request
  <2> QED
    BY <2>1, <2>2, <2>3
<1>6. CASE Answer
  BY <1>6 DEF Answer
<1>7. CASE Tick \/ StopScheduler \/ StrayTickEnds
  BY <1>7 DEF Tick, StopScheduler, StrayTickEnds
<1>8. CASE Drain \/ ClosePool
  BY <1>8 DEF Drain, ClosePool
<1> QED
  BY <1>1, <1>2, <1>3, <1>4, <1>5, <1>6, <1>7, <1>8 DEF AppNext

---------------------------------------------------------------------------
(* The readers.  What was handed on are the pages up to the one that is asked
   for; and a token taken for a request lasts for its attempts, each of which
   takes at most one unit of time. *)
FetchTypeOK ==
    /\ reader \in {"loader", "extractor"}
    /\ pages \in Nat /\ cursor \in 1..pages
    /\ attempt \in 0..(RetryMax + 1)
    /\ fetch \in {"reading", "done", "failed"}
    /\ cut \in BOOLEAN
    /\ clock \in Nat /\ tokenExp \in Nat

PagesSoFar ==
    /\ got = [i \in 1..(IF fetch = "done" /\ ~cut THEN pages ELSE cursor - 1) |-> i]
    /\ fetch = "reading" => ~cut
    /\ cut => reader = "extractor"

TokenLasts ==
    (reader = "extractor" /\ attempt > 0) =>
        fetch = "reading" /\ clock + Leeway < tokenExp + (attempt - 1)

FetchInv == FetchTypeOK /\ PagesSoFar /\ TokenLasts

(* A page handed on is the next one. *)
LEMMA NextPageInOrder ==
  ASSUME NEW n \in Nat, NEW s, s = [i \in 1..n |-> i]
  PROVE  Append(s, n + 1) = [i \in 1..(n + 1) |-> i]
<1>1. s \in Seq(Nat) /\ Len(s) = n
  OBVIOUS
<1>2. Append(s, n + 1) \in Seq(Nat) /\ Len(Append(s, n + 1)) = n + 1
  BY <1>1
<1>3. \A i \in 1..(n + 1) : Append(s, n + 1)[i] = i
  BY <1>1
<1> QED
  BY <1>2, <1>3

LEMMA FetchKeeps ==
  ASSUME FetchInv, FetchNext
  PROVE  FetchInv'
<1> USE PagedFetchAssumption DEF FetchInv, FetchTypeOK, TokenLasts
<1>1. CASE StartRequest
  BY <1>1 DEF StartRequest, Token, PagesSoFar
<1>2. CASE Elapse
  BY <1>2 DEF Elapse, PagesSoFar
<1>3. CASE Do
  <2>1. /\ fetch = "reading" /\ attempt > 0 /\ ~cut
        /\ clock' \in {clock, clock + 1}
        /\ UNCHANGED <<reader, pages, tokenExp>>
    BY <1>3 DEF Do, PagesSoFar
  <2>2. got = [i \in 1..(cursor - 1) |-> i]
    BY <2>1 DEF PagesSoFar
  <2>3. PICK answer \in Answers :
          IF reader = "extractor" /\ clock >= tokenExp
          THEN GiveUp("401")
          ELSE Retry(answer) \/ NextPage(answer) \/ EmptyStream(answer) \/ GiveUp(answer)
    BY <1>3 DEF Do
  <2>4. CASE Retry(answer)
    <3>1. UNCHANGED <<cursor, got, cut>>
      BY <2>4 DEF Retry
    <3>2. CASE attempt <= RetryMax
      <4>1. attempt' = attempt + 1 /\ fetch' = fetch
        BY <2>4, <3>2 DEF Retry
      <4>2. FetchTypeOK'
        BY <2>1, <3>1, <3>2, <4>1
      <4>3. PagesSoFar'
        BY <2>1, <3>1, <4>1 DEF PagesSoFar
      <4>4. TokenLasts'
        BY <2>1, <4>1
      <4> QED
        BY <4>2, <4>3, <4>4
    <3>3. CASE attempt > RetryMax
      <4>1. attempt' = 0 /\ fetch' = "failed"
        BY <2>4, <3>3 DEF Retry
      <4> QED
        BY <2>1, <2>2, <3>1, <4>1 DEF PagesSoFar
    <3> QED
      BY <3>2, <3>3
  <2>5. CASE NextPage(answer)
    <3>1. got' = [i \in 1..cursor |-> i]
      BY <2>2, <2>5, NextPageInOrder, cursor - 1 \in Nat, (cursor - 1) + 1 = cursor DEF NextPage
    <3>2. CASE cursor < pages
      BY <2>1, <2>5, <3>1, <3>2 DEF NextPage, PagesSoFar
    <3>3. CASE cursor = pages
      BY <2>1, <2>5, <3>1, <3>3 DEF NextPage, PagesSoFar
    <3> QED
      BY <3>2, <3>3
  <2>6. CASE EmptyStream(answer)
    <3>1. reader = "extractor"
      BY <2>3, <2>6 DEF EmptyStream, TakenForTheEnd, Answers
    <3> QED
      BY <2>1, <2>2, <2>6, <3>1 DEF EmptyStream, PagesSoFar
  <2>7. CASE GiveUp(answer) \/ GiveUp("401")
    BY <2>1, <2>2, <2>7 DEF GiveUp, PagesSoFar
  <2> QED
    BY <2>3, <2>4, <2>5, <2>6, <2>7
<1> QED
  BY <1>1, <1>2, <1>3 DEF FetchNext

LEMMA FetchInvSound == FetchInv => FetchSound
<1> SUFFICES ASSUME FetchInv PROVE FetchSound
  OBVIOUS
<1> USE PagedFetchAssumption DEF FetchInv, FetchTypeOK
<1>1. \E n \in 0..pages : PagesInOrder(n)
  <2>1. CASE fetch = "done" /\ ~cut
    BY <2>1 DEF PagesSoFar, PagesInOrder
  <2>2. CASE ~(fetch = "done" /\ ~cut)
    <3>1. cursor - 1 \in 0..pages /\ PagesInOrder(cursor - 1)
      BY <2>2 DEF PagesSoFar, PagesInOrder
    <3> QED
      BY <3>1
  <2> QED
    BY <2>1, <2>2
<1>2. (fetch = "done" /\ ~cut) => PagesInOrder(pages)
  BY DEF PagesSoFar, PagesInOrder
<1>3. cut => reader = "extractor"
  BY DEF PagesSoFar
<1>4. (reader = "extractor" /\ attempt > 0) => clock < tokenExp
  BY DEF TokenLasts
<1> QED
  BY <1>1, <1>2, <1>3, <1>4 DEF FetchSound

---------------------------------------------------------------------------
(* A part moves or stands still while another one moves. *)
PartsInv == ExportInv /\ AppInv /\ FetchInv

LEMMA PartsStart == Init => PartsInv
<1>1. ExportsInit \/ ExportsIdle => ExportInv
  BY DEF ExportsInit, ExportsIdle, ExportInv, ExportTypeOK, BodyBeforeMeta
<1>2. AppInit \/ AppIdle => AppInv
  BY DEF AppInit, AppIdle, AppInv, AppTypeOK, ShutInOrder, Apps
<1>3. <<>> = [i \in 1..0 |-> i] /\ <<1>> = [i \in 1..1 |-> i]
  OBVIOUS
<1>4. FetchInit => FetchInv
  <2> SUFFICES ASSUME FetchInit PROVE FetchInv
    OBVIOUS
  <2>1. pages \in 1..MaxPages /\ MaxPages \in Nat
    BY PagedFetchAssumption DEF FetchInit
  <2>2. FetchTypeOK
    <3>1. 0 \in 0..(RetryMax + 1) /\ pages \in Nat /\ 1 \in 1..pages
      BY <2>1, PagedFetchAssumption
    <3> QED
      BY <3>1 DEF FetchInit, FetchTypeOK
  <2>3. cursor - 1 = 0 /\ fetch = "reading" /\ got = <<>> /\ cut = FALSE
    BY DEF FetchInit
  <2>4. PagesSoFar
    BY <2>3, <1>3 DEF PagesSoFar
  <2>5. TokenLasts
    BY DEF FetchInit, TokenLasts
  <2> QED
    BY <2>2, <2>4, <2>5 DEF FetchInv
<1>5. FetchIdle => FetchInv
  <2> SUFFICES ASSUME FetchIdle PROVE FetchInv
    OBVIOUS
  <2>1. FetchTypeOK
    <3>1. 0 \in 0..(RetryMax + 1) /\ 1 \in 1..1
      BY PagedFetchAssumption
    <3> QED
      BY <3>1 DEF FetchIdle, FetchTypeOK
  <2>2. PagesSoFar
    BY <1>3 DEF FetchIdle, PagesSoFar
  <2>3. TokenLasts
    BY DEF FetchIdle, TokenLasts
  <2> QED
    BY <2>1, <2>2, <2>3 DEF FetchInv
<1> QED
  BY <1>1, <1>2, <1>4, <1>5 DEF Init, AdapterIdle, PartsInv

LEMMA PartsKeep ==
  ASSUME PartsInv, [Next]_vars
  PROVE  PartsInv'
<1> USE DEF PartsInv
<1>1. UNCHANGED exportVars => ExportInv'
  <2> SUFFICES ASSUME UNCHANGED exportVars PROVE ExportInv'
    OBVIOUS
  <2>1. UNCHANGED <<meta, body, writer, expired, cleaner>>
    BY DEF exportVars
  <2> QED
    BY <2>1, Zenon DEF ExportInv, ExportTypeOK, BodyBeforeMeta
<1>2. UNCHANGED appVars => AppInv'
  BY DEF appVars, AppInv, AppTypeOK, ShutInOrder
<1>3. UNCHANGED fetchVars => FetchInv'
  <2> SUFFICES ASSUME UNCHANGED fetchVars PROVE FetchInv'
    OBVIOUS
  <2>1. UNCHANGED <<reader, pages, cursor, attempt, got, fetch, cut, clock, tokenExp>>
    BY DEF fetchVars
  <2> QED
    BY <2>1 DEF FetchInv, FetchTypeOK, PagesSoFar, TokenLasts
<1>4. ExportInv'
  BY <1>1, ExportsKeep DEF Next, vars, adapterVars
<1>5. AppInv'
  BY <1>2, AppKeeps DEF Next, vars, adapterVars
<1>6. FetchInv'
  BY <1>3, FetchKeeps DEF Next, vars, adapterVars
<1> QED
  BY <1>4, <1>5, <1>6

THEOREM PartsInvHolds == Spec => []PartsInv
<1>1. PartsInv /\ [Next]_vars => PartsInv'
  BY PartsKeep
<1> QED
  BY PartsStart, <1>1, PTL DEF Spec

(* Whoever is told that an export is ready finds the whole file until it
   expires, whatever failed or crashed. *)
THEOREM ReadyAlwaysHasBody == Spec => []ReadyHasBody
<1>1. PartsInv => ReadyHasBody
  BY DEF PartsInv, ExportInv, ExportTypeOK, BodyBeforeMeta, ReadyHasBody, GetExport
<1> QED
  BY PartsInvHolds, <1>1, PTL

(* No request and no tick meets a closed pool unless the shutdown gave up
   waiting for it, for any number of requests. *)
THEOREM PoolAlwaysOutlives == Spec => []PoolOutlivesRequests
<1>1. PartsInv => PoolOutlivesRequests
  BY DEF PartsInv, AppInv, AppTypeOK, ShutInOrder, PoolOutlivesRequests
<1> QED
  BY PartsInvHolds, <1>1, PTL

(* A table that was read has all its pages in order, and no attempt carries an
   expired token, for any number of pages and retries that fit the leeway. *)
THEOREM FetchAlwaysSound == Spec => []FetchSound
<1>1. PartsInv => FetchSound
  BY FetchInvSound DEF PartsInv
<1> QED
  BY PartsInvHolds, <1>1, PTL

---------------------------------------------------------------------------
(* The pages of one table.  The cursor of a row is a text that is ordered as the
   columns of the query are, so what is left to deliver is what is above the
   cursor of the last page.  First, the order of texts is a strict total one. *)
Texts == Seq(Nat)

\* t is above s from its position i on.
AboveAt(s, t, i) ==
    /\ \A j \in 1..(i - 1) : j <= Len(s) /\ s[j] = t[j]
    /\ i <= Len(s) + 1
    /\ i <= Len(s) => s[i] < t[i]

LEMMA TextLessAt ==
  ASSUME NEW s \in Texts, NEW t \in Texts
  PROVE  TextLess(s, t) <=> \E i \in 1..Len(t) : AboveAt(s, t, i)
<1>1. DOMAIN t = 1..Len(t)
  BY DEF Texts
<1> QED
  BY <1>1, Zenon DEF TextLess, AboveAt

LEMMA TextIrreflexive ==
  ASSUME NEW s \in Texts
  PROVE  ~TextLess(s, s)
BY TextLessAt DEF Texts, AboveAt

LEMMA TextTransitive ==
  ASSUME NEW s \in Texts, NEW t \in Texts, NEW u \in Texts, TextLess(s, t), TextLess(t, u)
  PROVE  TextLess(s, u)
<1>1. PICK i \in 1..Len(t) : AboveAt(s, t, i)
  BY TextLessAt
<1>2. PICK k \in 1..Len(u) : AboveAt(t, u, k)
  BY TextLessAt
<1>3. /\ Len(s) \in Nat /\ Len(t) \in Nat /\ Len(u) \in Nat /\ i \in Nat /\ k \in Nat
      /\ \A j \in 1..Len(s) : s[j] \in Nat
      /\ \A j \in 1..Len(t) : t[j] \in Nat
      /\ \A j \in 1..Len(u) : u[j] \in Nat
  BY DEF Texts
<1>4. CASE i < k
  <2>1. t[i] = u[i] /\ i \in 1..Len(u)
    BY <1>2, <1>3, <1>4 DEF AboveAt
  <2>2. ASSUME NEW j \in 1..(i - 1) PROVE j <= Len(s) /\ s[j] = u[j]
    <3>1. j \in 1..(k - 1)
      BY <1>3, <1>4
    <3> QED
      BY <1>1, <1>2, <3>1 DEF AboveAt
  <2>3. AboveAt(s, u, i)
    BY <1>1, <2>1, <2>2 DEF AboveAt
  <2> QED
    BY <2>1, <2>3, TextLessAt
<1>5. CASE i = k
  <2>1. AboveAt(s, u, i)
    BY <1>1, <1>2, <1>3, <1>5 DEF AboveAt
  <2> QED
    BY <1>5, <2>1, TextLessAt
<1>6. CASE k < i
  <2>1. k \in 1..(i - 1)
    BY <1>3, <1>6
  <2>2. k <= Len(s) /\ s[k] = t[k] /\ k <= Len(t)
    BY <1>1, <1>3, <2>1 DEF AboveAt
  <2>3. ASSUME NEW j \in 1..(k - 1) PROVE j <= Len(s) /\ s[j] = u[j]
    <3>1. j \in 1..(i - 1)
      BY <1>3, <1>6
    <3> QED
      BY <1>1, <1>2, <3>1 DEF AboveAt
  <2>4. AboveAt(s, u, k)
    BY <1>2, <1>3, <2>2, <2>3 DEF AboveAt
  <2> QED
    BY <2>4, TextLessAt
<1> QED
  BY <1>3, <1>4, <1>5, <1>6

LEMMA LeastNumber ==
  ASSUME NEW S \in SUBSET Nat, S # {}
  PROVE  \E n \in S : \A k \in S : n <= k
<1>1. PICK n \in S : \A k \in S : <<k, n>> \notin OpToRel(<, Nat)
  BY NatLessThanWellFounded, WFMin
<1>2. ASSUME NEW k \in S
      PROVE  n <= k
  <2>1. <<k, n>> \in Nat \X Nat /\ ~(k < n)
    BY <1>1 DEF OpToRel
  <2> QED
    BY <2>1
<1> QED
  BY <1>2

LEMMA TextTotal ==
  ASSUME NEW s \in Texts, NEW t \in Texts, s # t
  PROVE  TextLess(s, t) \/ TextLess(t, s)
<1> DEFINE Both(i) == i \in 1..Len(s) /\ i \in 1..Len(t) /\ s[i] = t[i]
           Differ == {i \in 1..Len(s) \cup 1..Len(t) : ~Both(i)}
<1>0. /\ Len(s) \in Nat /\ Len(t) \in Nat
      /\ \A j \in 1..Len(s) : s[j] \in Nat
      /\ \A j \in 1..Len(t) : t[j] \in Nat
  BY DEF Texts
<1>1. Differ \in SUBSET Nat /\ Differ # {}
  <2>1. ASSUME Differ = {} PROVE FALSE
    <3>1. Len(s) = Len(t) /\ \A i \in 1..Len(s) : s[i] = t[i]
      BY <1>0, <2>1
    <3> QED
      BY <3>1, SeqEqual DEF Texts
  <2> QED
    BY <1>0, <2>1
<1>2. PICK n \in Differ : \A k \in Differ : n <= k
  BY <1>1, LeastNumber
<1>3. n \in Nat \ {0} /\ n \in 1..Len(s) \cup 1..Len(t)
  BY <1>0
<1>4. ASSUME NEW j \in 1..(n - 1) PROVE Both(j)
  <2>1. j \in 1..Len(s) \cup 1..Len(t) /\ ~(n <= j)
    BY <1>0, <1>3
  <2> QED
    BY <1>2, <2>1
<1>5. n <= Len(s) + 1 /\ n <= Len(t) + 1
  <2>1. CASE n = 1
    BY <1>0, <2>1
  <2>2. CASE n # 1
    <3>1. n - 1 \in 1..(n - 1)
      BY <1>3, <2>2
    <3> QED
      BY <1>0, <1>3, <1>4, <3>1
  <2> QED
    BY <2>1, <2>2
<1>6. \A j \in 1..(n - 1) : j <= Len(s) /\ j <= Len(t) /\ s[j] = t[j]
  BY <1>0, <1>4
<1> HIDE DEF Both, Differ
<1>7. CASE n \in 1..Len(s) /\ n \in 1..Len(t)
  <2>1. s[n] \in Nat /\ t[n] \in Nat /\ s[n] # t[n]
    BY <1>0, <1>7 DEF Both, Differ
  <2>2. CASE s[n] < t[n]
    <3>1. AboveAt(s, t, n)
      BY <1>5, <1>6, <2>2 DEF AboveAt
    <3> QED
      BY <1>7, <3>1, TextLessAt
  <2>3. CASE t[n] < s[n]
    <3>1. AboveAt(t, s, n)
      BY <1>5, <1>6, <2>3 DEF AboveAt
    <3> QED
      BY <1>7, <3>1, TextLessAt
  <2> QED
    BY <2>1, <2>2, <2>3
<1>8. CASE n \notin 1..Len(s)
  <2>1. AboveAt(s, t, n) /\ n \in 1..Len(t)
    BY <1>0, <1>3, <1>5, <1>6, <1>8 DEF AboveAt
  <2> QED
    BY <2>1, TextLessAt
<1>9. CASE n \notin 1..Len(t)
  <2>1. AboveAt(t, s, n) /\ n \in 1..Len(s)
    BY <1>0, <1>3, <1>5, <1>6, <1>9 DEF AboveAt
  <2> QED
    BY <2>1, TextLessAt
<1> QED
  BY <1>7, <1>8, <1>9

---------------------------------------------------------------------------
(* Texts put one after the other, and keys of several columns. *)
LEMMA AppendLess ==
  ASSUME NEW a \in Texts, NEW b \in Texts, NEW c \in Texts, NEW d \in Texts,
         Len(a) = Len(c)
  PROVE  TextLess(a \o b, c \o d) <=> TextLess(a, c) \/ (a = c /\ TextLess(b, d))
<1> DEFINE n == Len(a)
<1>1. /\ n \in Nat /\ Len(c) = n /\ Len(b) \in Nat /\ Len(d) \in Nat
      /\ a \o b \in Texts /\ Len(a \o b) = n + Len(b)
      /\ c \o d \in Texts /\ Len(c \o d) = n + Len(d)
      /\ \A i \in 1..n : (a \o b)[i] = a[i] /\ (c \o d)[i] = c[i]
      /\ \A i \in 1..Len(b) : (a \o b)[n + i] = b[i]
      /\ \A i \in 1..Len(d) : (c \o d)[n + i] = d[i]
  <2>1. /\ Len(a) \in Nat /\ Len(b) \in Nat /\ Len(d) \in Nat
        /\ a \o b \in Texts /\ Len(a \o b) = n + Len(b)
        /\ c \o d \in Texts /\ Len(c \o d) = n + Len(d)
    <3>1. Len(a) \in Nat /\ Len(b) \in Nat /\ Len(d) \in Nat
      BY DEF Texts
    <3>2. a \o b \in Texts /\ Len(a \o b) = n + Len(b)
      BY ConcatProperties DEF Texts
    <3>3. c \o d \in Texts /\ Len(c \o d) = n + Len(d)
      BY ConcatProperties DEF Texts
    <3> QED
      BY <3>1, <3>2, <3>3
  <2>2. \A i \in 1..(n + Len(b)) : (a \o b)[i] = IF i <= n THEN a[i] ELSE b[i - n]
    BY ConcatProperties DEF Texts
  <2>3. \A i \in 1..(n + Len(d)) : (c \o d)[i] = IF i <= n THEN c[i] ELSE d[i - n]
    BY ConcatProperties DEF Texts
  <2>4. \A i \in 1..n : (a \o b)[i] = a[i] /\ (c \o d)[i] = c[i]
    BY <2>1, <2>2, <2>3
  <2>5. ASSUME NEW i \in 1..Len(b) PROVE (a \o b)[n + i] = b[i]
    <3>1. n + i \in 1..(n + Len(b)) /\ ~(n + i <= n) /\ (n + i) - n = i
      BY <2>1
    <3> QED
      BY <2>2, <3>1
  <2>6. ASSUME NEW i \in 1..Len(d) PROVE (c \o d)[n + i] = d[i]
    <3>1. n + i \in 1..(n + Len(d)) /\ ~(n + i <= n) /\ (n + i) - n = i
      BY <2>1
    <3> QED
      BY <2>3, <3>1
  <2> QED
    BY <2>1, <2>4, <2>5, <2>6
<1> HIDE DEF n
<1>2. ASSUME TextLess(a \o b, c \o d)
      PROVE  TextLess(a, c) \/ (a = c /\ TextLess(b, d))
  <2>1. PICK i \in 1..(n + Len(d)) : AboveAt(a \o b, c \o d, i)
    BY <1>1, <1>2, TextLessAt
  <2>2. CASE i <= n
    <3>1. i \in 1..Len(c)
      BY <1>1, <2>2
    <3>2. \A j \in 1..(i - 1) : j <= Len(a) /\ a[j] = c[j]
      BY <1>1, <2>1, <2>2 DEF AboveAt, n
    <3>3. a[i] < c[i] /\ i <= Len(a)
      BY <1>1, <2>1, <2>2 DEF AboveAt, n
    <3>4. AboveAt(a, c, i)
      BY <1>1, <3>1, <3>2, <3>3 DEF AboveAt
    <3> QED
      BY <3>1, <3>4, TextLessAt
  <2>3. CASE i > n
    <3>1. \A j \in 1..n : a[j] = c[j]
      BY <1>1, <2>1, <2>3 DEF AboveAt
    <3>2. a = c
      BY <1>1, <3>1, SeqEqual DEF Texts, n
    <3>3. i - n \in 1..Len(d)
      BY <1>1, <2>3
    <3>4. ASSUME NEW j \in 1..(i - n - 1) PROVE j <= Len(b) /\ b[j] = d[j]
      <4>1. n + j \in 1..(i - 1) /\ j \in 1..Len(d)
        BY <1>1, <2>3
      <4>2. n + j <= n + Len(b) /\ (a \o b)[n + j] = (c \o d)[n + j]
        BY <1>1, <2>1, <4>1 DEF AboveAt
      <4>3. j \in 1..Len(b)
        BY <1>1, <4>1, <4>2
      <4> QED
        BY <1>1, <4>1, <4>2, <4>3
    <3>5. i - n <= Len(b) + 1
      BY <1>1, <2>1, <2>3 DEF AboveAt
    <3>6. ASSUME i - n <= Len(b) PROVE b[i - n] < d[i - n]
      <4>1. i - n \in 1..Len(b) /\ n + (i - n) = i /\ i <= n + Len(b)
        BY <1>1, <2>3, <3>6
      <4>2. (a \o b)[i] = b[i - n] /\ (c \o d)[i] = d[i - n]
        BY <1>1, <3>3, <4>1
      <4>3. (a \o b)[i] < (c \o d)[i]
        BY <1>1, <2>1, <4>1 DEF AboveAt
      <4> QED
        BY <4>2, <4>3
    <3>7. AboveAt(b, d, i - n)
      BY <3>4, <3>5, <3>6 DEF AboveAt
    <3> QED
      BY <3>2, <3>3, <3>7, TextLessAt
  <2> QED
    BY <1>1, <2>2, <2>3
<1>3. ASSUME TextLess(a, c)
      PROVE  TextLess(a \o b, c \o d)
  <2>1. PICK i \in 1..n : AboveAt(a, c, i)
    BY <1>1, <1>3, TextLessAt
  <2>2. i \in 1..Len(c \o d) /\ i <= Len(a)
    BY <1>1 DEF n
  <2>3. AboveAt(a \o b, c \o d, i)
    BY <1>1, <2>1, <2>2 DEF AboveAt, n
  <2> QED
    BY <1>1, <2>2, <2>3, TextLessAt
<1>4. ASSUME a = c, TextLess(b, d)
      PROVE  TextLess(a \o b, c \o d)
  <2>1. PICK i \in 1..Len(d) : AboveAt(b, d, i)
    BY <1>4, TextLessAt
  <2>2. n + i \in 1..Len(c \o d)
    BY <1>1
  <2>3. ASSUME NEW j \in 1..(n + i - 1)
        PROVE  j <= n + Len(b) /\ (a \o b)[j] = (c \o d)[j]
    <3>1. CASE j <= n
      BY <1>1, <1>4, <3>1
    <3>2. CASE j > n
      <4>1. j - n \in 1..(i - 1) /\ n + (j - n) = j
        BY <1>1, <3>2
      <4>2. j - n <= Len(b) /\ b[j - n] = d[j - n] /\ j - n \in 1..Len(b) /\ j - n \in 1..Len(d)
        BY <1>1, <2>1, <4>1 DEF AboveAt
      <4>3. (a \o b)[n + (j - n)] = b[j - n] /\ (c \o d)[n + (j - n)] = d[j - n]
        BY <1>1, <4>2
      <4> QED
        BY <1>1, <4>1, <4>2, <4>3
    <3> QED
      BY <1>1, <3>1, <3>2
  <2>4. n + i <= n + Len(b) + 1
    BY <1>1, <2>1 DEF AboveAt
  <2>5. ASSUME n + i <= n + Len(b) PROVE (a \o b)[n + i] < (c \o d)[n + i]
    <3>1. i \in 1..Len(b) /\ b[i] < d[i]
      BY <1>1, <2>1, <2>5 DEF AboveAt
    <3> QED
      BY <1>1, <3>1
  <2>6. AboveAt(a \o b, c \o d, n + i)
    <3>1. /\ \A j \in 1..((n + i) - 1) : j <= Len(a \o b) /\ (a \o b)[j] = (c \o d)[j]
          /\ n + i <= Len(a \o b) + 1
      BY <1>1, <2>3, <2>4
    <3>2. n + i <= Len(a \o b) => (a \o b)[n + i] < (c \o d)[n + i]
      BY <1>1, <2>5
    <3> QED
      BY <3>1, <3>2 DEF AboveAt
  <2> QED
    BY <1>1, <2>2, <2>6, TextLessAt
<1> QED
  BY <1>2, <1>3, <1>4

LEMMA AppendEqual ==
  ASSUME NEW a \in Texts, NEW b \in Texts, NEW c \in Texts, NEW d \in Texts,
         Len(a) = Len(c), a \o b = c \o d
  PROVE  a = c /\ b = d
<1>1. a \o b \in Texts /\ c \o d \in Texts
  BY DEF Texts
<1>2. ~TextLess(a \o b, c \o d) /\ ~TextLess(c \o d, a \o b)
  BY <1>1, TextIrreflexive
<1>3. ~TextLess(a, c) /\ ~TextLess(c, a)
  BY <1>2, AppendLess
<1>4. a = c
  BY <1>3, TextTotal
<1>5. ~TextLess(b, d) /\ ~TextLess(d, b)
  BY <1>2, <1>4, AppendLess
<1> QED
  BY <1>4, <1>5, TextTotal

LEMMA BarText == <<Bar>> \in Texts /\ Len(<<Bar>>) = 1
BY DEF Bar, Texts

LEMMA JoinedText ==
  ASSUME NEW a \in Texts, NEW b \in Texts
  PROVE  /\ Joined(a, b) \in Texts
         /\ Joined(a, b) # <<>>
         /\ Len(Joined(a, b)) = Len(a) + 1 + Len(b)
BY BarText DEF Joined, Texts

(* A cursor of several columns is ordered as they are when the first ones have
   one length. *)
LEMMA JoinedLess ==
  ASSUME NEW a \in Texts, NEW b \in Texts, NEW c \in Texts, NEW d \in Texts,
         Len(a) = Len(c)
  PROVE  TextLess(Joined(a, b), Joined(c, d)) <=> TextLess(a, c) \/ (a = c /\ TextLess(b, d))
<1>1. /\ a \o <<Bar>> \in Texts /\ Len(a \o <<Bar>>) = Len(a) + 1
      /\ c \o <<Bar>> \in Texts /\ Len(c \o <<Bar>>) = Len(c) + 1
  BY BarText DEF Texts
<1>0. Len(a \o <<Bar>>) = Len(c \o <<Bar>>)
  BY <1>1
<1>2. TextLess(Joined(a, b), Joined(c, d)) <=>
        \/ TextLess(a \o <<Bar>>, c \o <<Bar>>)
        \/ a \o <<Bar>> = c \o <<Bar>> /\ TextLess(b, d)
  <2> DEFINE x == a \o <<Bar>>
             y == c \o <<Bar>>
  <2>1. Joined(a, b) = x \o b /\ Joined(c, d) = y \o d
    BY DEF Joined
  <2>2. x \in Texts /\ y \in Texts /\ Len(x) = Len(y)
    BY <1>0, <1>1
  <2> HIDE DEF x, y
  <2>3. TextLess(x \o b, y \o d) <=> TextLess(x, y) \/ (x = y /\ TextLess(b, d))
    BY <2>2, AppendLess
  <2> QED
    BY <2>1, <2>3 DEF x, y
<1>3. TextLess(a \o <<Bar>>, c \o <<Bar>>) <=> TextLess(a, c)
  BY AppendLess, BarText, TextIrreflexive
<1>4. a \o <<Bar>> = c \o <<Bar>> => a = c
  BY AppendEqual, BarText
<1> QED
  BY <1>2, <1>3, <1>4

LEMMA JoinedEqual ==
  ASSUME NEW a \in Texts, NEW b \in Texts, NEW c \in Texts, NEW d \in Texts,
         Len(a) = Len(c), Joined(a, b) = Joined(c, d)
  PROVE  a = c /\ b = d
<1>1. ~TextLess(Joined(a, b), Joined(c, d)) /\ ~TextLess(Joined(c, d), Joined(a, b))
  BY JoinedText, TextIrreflexive
<1>2. ~TextLess(a, c) /\ ~TextLess(c, a)
  BY <1>1, JoinedLess
<1>3. a = c
  BY <1>2, TextTotal
<1>4. ~TextLess(b, d) /\ ~TextLess(d, b)
  BY <1>1, <1>3, JoinedLess
<1> QED
  BY <1>3, <1>4, TextTotal

(* A number is ordered by its digits when it has as many. *)
LEMMA NumberText ==
  ASSUME NEW a \in Texts
  PROVE  /\ Number(a) \in Texts
         /\ TextLess(Number(<<>>), Number(a)) <=> a # <<>>
<1>1. Number(a) \in Texts /\ Len(Number(a)) = Len(a) + 1 /\ Number(a)[1] = Len(a)
  BY DEF Number, Texts
<1>2. Number(<<>>) = <<0>> /\ <<0>> \in Texts
  BY DEF Number, Texts
<1>3. CASE a = <<>>
  BY <1>2, <1>3, TextIrreflexive
<1>4. CASE a # <<>>
  <2>1. AboveAt(<<0>>, Number(a), 1) /\ 1 \in 1..Len(Number(a))
    BY <1>1, <1>4 DEF AboveAt, Texts
  <2> QED
    BY <1>1, <1>2, <1>4, <2>1, TextLessAt
<1> QED
  BY <1>1, <1>3, <1>4

LEMMA NumberLess ==
  ASSUME NEW a \in Texts, NEW b \in Texts, Len(a) = Len(b)
  PROVE  TextLess(Number(a), Number(b)) <=> TextLess(a, b)
<1>1. <<Len(a)>> \in Texts /\ <<Len(b)>> = <<Len(a)>> /\ Len(<<Len(a)>>) = 1
  BY DEF Texts
<1> QED
  BY <1>1, AppendLess, TextIrreflexive DEF Number

LEMMA NumberEqual ==
  ASSUME NEW a \in Texts, NEW b \in Texts, Number(a) = Number(b)
  PROVE  a = b
<1>1. /\ <<Len(a)>> \in Texts /\ <<Len(b)>> \in Texts
      /\ Len(<<Len(a)>>) = Len(<<Len(b)>>)
  BY DEF Texts
<1>2. Number(a)[1] = Len(a) /\ Number(b)[1] = Len(b)
  BY DEF Number, Texts
<1> QED
  BY <1>1, <1>2, AppendEqual DEF Number

LEMMA EmptyLess ==
  ASSUME NEW a \in Texts
  PROVE  TextLess(<<>>, a) <=> a # <<>>
<1>1. <<>> \in Texts
  BY DEF Texts
<1>2. CASE a = <<>>
  BY <1>1, <1>2, TextIrreflexive
<1>3. CASE a # <<>>
  <2>1. AboveAt(<<>>, a, 1) /\ 1 \in 1..Len(a)
    BY <1>3 DEF AboveAt, Texts
  <2> QED
    BY <1>1, <1>3, <2>1, TextLessAt
<1> QED
  BY <1>2, <1>3

LEMMA KeyOfOne ==
  ASSUME NEW a, NEW b
  PROVE  KeyLess(<<a>>, <<b>>) <=> TextLess(a, b)
<1>1. DOMAIN <<a>> = {1} /\ <<a>>[1] = a /\ <<b>>[1] = b /\ 1..(1 - 1) = {}
  OBVIOUS
<1> QED
  BY <1>1 DEF KeyLess

LEMMA KeyOfTwo ==
  ASSUME NEW a, NEW b, NEW c, NEW d
  PROVE  KeyLess(<<a, b>>, <<c, d>>) <=> TextLess(a, c) \/ (a = c /\ TextLess(b, d))
<1>1. DOMAIN <<a, b>> = {1, 2}
  OBVIOUS
<1> QED
  BY <1>1 DEF KeyLess

LEMMA KeyOfThree ==
  ASSUME NEW a, NEW b, NEW c, NEW d, NEW e, NEW f
  PROVE  KeyLess(<<a, b, c>>, <<d, e, f>>) <=>
            TextLess(a, d) \/ (a = d /\ (TextLess(b, e) \/ (b = e /\ TextLess(c, f))))
<1>1. DOMAIN <<a, b, c>> = {1, 2, 3}
  OBVIOUS
<1> QED
  BY <1>1 DEF KeyLess

---------------------------------------------------------------------------
(* One page, of any table whose cursors have an order of their own that the
   columns of the query agree with. *)
Agree(place, key) ==
    /\ place \in [rows -> Texts]
    /\ \A a, b \in rows : place[a] = place[b] => a = b
    /\ \A a, b \in rows : KeyLess(key[a], key[b]) <=> TextLess(place[a], place[b])

Above(place, from) == {r \in rows : TextLess(from, place[r])}
InPage(s) == {s[i] : i \in DOMAIN s}
NoneTwice(s) == \A i, j \in DOMAIN s : s[i] = s[j] => i = j

LEMMA PageSize ==
  ASSUME NEW n \in Nat, NEW m \in Nat
  PROVE  /\ Min({n, m}) \in {n, m}
         /\ Min({n, m}) <= n /\ Min({n, m}) <= m
<1>1. \E x \in {n, m} : \A y \in {n, m} : x =< y
  <2>1. CASE n <= m
    BY <2>1
  <2>2. CASE m <= n
    BY <2>2
  <2> QED
    BY <2>1, <2>2
<1>2. Min({n, m}) \in {n, m} /\ \A y \in {n, m} : Min({n, m}) =< y
  BY <1>1 DEF Min
<1> QED
  BY <1>2

LEMMA PageRows ==
  ASSUME NEW left, IsFiniteSet(left), limit \in Nat \ {0}, NEW key, NEW page \in Page(left, key)
  PROVE  /\ page \in Seq(left)
         /\ NoneTwice(page)
         /\ Len(page) # limit => InPage(page) = left
<1> DEFINE n == Min({limit, Cardinality(left)})
<1>1. Cardinality(left) \in Nat
  BY FS_CardinalityType
<1>2. n \in Nat /\ n \in {limit, Cardinality(left)}
  BY <1>1, PageSize
<1>3. page \in [1..n -> left] /\ \A i, j \in 1..n : i < j => page[i] # page[j]
  BY DEF Page
<1> HIDE DEF n
<1>4. page \in Seq(left) /\ Len(page) = n /\ DOMAIN page = 1..n
  BY <1>2, <1>3
<1>5. NoneTwice(page)
  BY <1>2, <1>3, <1>4 DEF NoneTwice
<1>6. ASSUME n = Cardinality(left) PROVE InPage(page) = left
  <2>1. page \in Injection(1..n, left)
    BY <1>3, <1>4, <1>5 DEF Injection, NoneTwice, IsInjective
  <2>2. Cardinality(1..n) = n
    BY <1>2, FS_Interval
  <2>3. page \in Surjection(1..n, left)
    BY <1>6, <2>1, <2>2, FS_Injection
  <2> QED
    BY <1>3, <1>4, <2>3 DEF InPage, Surjection
<1> QED
  BY <1>2, <1>4, <1>5, <1>6

LEMMA PageEnd ==
  ASSUME NEW place, NEW key, Agree(place, key), NEW from \in Texts,
         NEW page \in Page(Above(place, from), key),
         IsFiniteSet(rows), limit \in Nat \ {0}, Len(page) = limit
  PROVE  /\ place[page[limit]] \in Texts
         /\ Above(place, place[page[limit]]) = Above(place, from) \ InPage(page)
<1> DEFINE left == Above(place, from)
           n == Min({limit, Cardinality(left)})
           last == page[limit]
<1>1. IsFiniteSet(left) /\ left \subseteq rows
  BY FS_Subset DEF Above
<1>2. page \in Seq(left) /\ DOMAIN page = 1..limit /\ limit \in DOMAIN page
  BY <1>1, PageRows
<1>3. /\ page \in [1..n -> left]
      /\ \A i, j \in 1..n : i < j => ~KeyLess(key[page[j]], key[page[i]])
      /\ \A r \in left : (\A i \in 1..n : page[i] # r) =>
            \A i \in 1..n : ~KeyLess(key[r], key[page[i]])
  BY DEF Page
<1>4. 1..n = 1..limit
  BY <1>2, <1>3
<1>5. last \in left /\ last \in rows
  BY <1>1, <1>2
<1> HIDE DEF left, n, last
<1>6. place[last] \in Texts /\ TextLess(from, place[last])
  BY <1>5 DEF Agree, Above, left
<1>7. ASSUME NEW r \in rows, TextLess(place[last], place[r])
      PROVE  r \in left /\ r \notin InPage(page)
  <2>1. place[r] \in Texts
    BY DEF Agree
  <2>2. r \in left
    BY <1>6, <1>7, <2>1, TextTransitive DEF left, Above
  <2>3. ASSUME NEW i \in DOMAIN page, page[i] = r PROVE FALSE
    <3>1. CASE i = limit
      BY <1>7, <2>1, <2>3, <3>1, TextIrreflexive DEF last
    <3>2. CASE i # limit
      <4>1. i \in 1..limit /\ limit \in 1..limit
        BY <1>2, <2>3
      <4>2. i \in 1..n /\ limit \in 1..n /\ i < limit
        <5>1. i < limit
          BY <3>2, <4>1
        <5> QED
          BY <1>4, <4>1, <5>1, Zenon
      <4>3. ~KeyLess(key[last], key[r])
        BY <1>3, <2>3, <4>2 DEF last
      <4> QED
        BY <1>5, <1>7, <4>3 DEF Agree
    <3> QED
      BY <3>1, <3>2
  <2> QED
    BY <2>2, <2>3 DEF InPage
<1>8. ASSUME NEW r \in left, r \notin InPage(page)
      PROVE  r \in rows /\ TextLess(place[last], place[r])
  <2>1. r \in rows /\ place[r] \in Texts
    BY <1>1 DEF Agree
  <2>2. \A i \in 1..n : page[i] # r
    BY <1>2, <1>4, <1>8 DEF InPage
  <2>3. ~KeyLess(key[r], key[last]) /\ r # last
    BY <1>2, <1>3, <1>4, <2>2 DEF last
  <2>4. ~TextLess(place[r], place[last]) /\ place[r] # place[last]
    BY <1>5, <2>1, <2>3 DEF Agree
  <2> QED
    BY <1>6, <2>1, <2>4, TextTotal
<1> QED
  BY <1>6, <1>7, <1>8 DEF Above, left, last

(* What the pages have delivered: no row twice, and what is left is what is
   above the last cursor. *)
Delivers(place, from, all, over) ==
    /\ all \in Seq(rows)
    /\ NoneTwice(all)
    /\ IF over THEN rows = InPage(all)
       ELSE /\ from \in Texts
            /\ \A r \in rows : r \in Above(place, from) <=> r \notin InPage(all)

LEMMA PageAdds ==
  ASSUME NEW place, NEW key, Agree(place, key), NEW from,
         Delivers(place, from, delivered, FALSE),
         NEW page \in Page(Above(place, from), key),
         IsFiniteSet(rows), limit \in Nat \ {0}
  PROVE  IF Len(page) = limit
         THEN Delivers(place, place[page[limit]], delivered \o page, FALSE)
         ELSE \A any : Delivers(place, any, delivered \o page, TRUE)
<1> DEFINE left == Above(place, from)
           m == Len(delivered)
           all == delivered \o page
<1>0. /\ from \in Texts /\ delivered \in Seq(rows) /\ NoneTwice(delivered)
      /\ \A r \in rows : r \in Above(place, from) <=> r \notin InPage(delivered)
  BY DEF Delivers
<1>1. IsFiniteSet(left) /\ left \subseteq rows
  BY FS_Subset DEF Above
<1>2. page \in Seq(left) /\ NoneTwice(page) /\ (Len(page) # limit => InPage(page) = left)
  BY <1>1, PageRows
<1>3. page \in Seq(rows)
  BY <1>1, <1>2, SeqMonotonic
<1>4. m \in Nat /\ Len(page) \in Nat /\ DOMAIN delivered = 1..m /\ DOMAIN page = 1..Len(page)
  BY <1>0, <1>3
<1>5. /\ all \in Seq(rows) /\ DOMAIN all = 1..(m + Len(page))
      /\ \A i \in 1..(m + Len(page)) : all[i] = IF i <= m THEN delivered[i] ELSE page[i - m]
  BY <1>0, <1>3, <1>4, ConcatProperties
<1>6. \A i \in DOMAIN delivered : delivered[i] \in rows \ left
  BY <1>0, <1>4 DEF InPage
<1>7. \A i \in DOMAIN page : page[i] \in left
  BY <1>2
<1> HIDE DEF left, m, all
<1>8. \A i \in DOMAIN all :
        \/ i \in DOMAIN delivered /\ all[i] = delivered[i]
        \/ i - m \in DOMAIN page /\ ~(i <= m) /\ all[i] = page[i - m]
  BY <1>4, <1>5
<1>9. /\ \A i \in DOMAIN delivered : i \in DOMAIN all /\ all[i] = delivered[i]
      /\ \A i \in DOMAIN page : m + i \in DOMAIN all /\ all[m + i] = page[i]
  <2>1. ASSUME NEW i \in DOMAIN page PROVE m + i \in DOMAIN all /\ all[m + i] = page[i]
    <3>1. m + i \in 1..(m + Len(page)) /\ ~(m + i <= m) /\ (m + i) - m = i
      BY <1>4
    <3> QED
      BY <1>5, <3>1
  <2> QED
    BY <1>4, <1>5, <2>1
<1>10. NoneTwice(all)
  <2> SUFFICES ASSUME NEW i \in DOMAIN all, NEW j \in DOMAIN all, all[i] = all[j]
               PROVE  i = j
    BY DEF NoneTwice
  <2>1. CASE i \in DOMAIN delivered /\ all[i] = delivered[i]
    <3>1. j \in DOMAIN delivered /\ all[j] = delivered[j]
      BY <1>6, <1>7, <1>8, <2>1
    <3> QED
      BY <1>0, <2>1, <3>1 DEF NoneTwice
  <2>2. CASE i - m \in DOMAIN page /\ ~(i <= m) /\ all[i] = page[i - m]
    <3>1. j - m \in DOMAIN page /\ ~(j <= m) /\ all[j] = page[j - m]
      BY <1>6, <1>7, <1>8, <2>2
    <3>2. i - m = j - m
      BY <1>2, <2>2, <3>1 DEF NoneTwice
    <3> QED
      BY <1>4, <1>5, <3>2
  <2> QED
    BY <1>8, <2>1, <2>2
<1>11. InPage(all) = InPage(delivered) \cup InPage(page)
  BY <1>8, <1>9 DEF InPage
<1>12. left = rows \ InPage(delivered) /\ InPage(delivered) \subseteq rows
  BY <1>0, <1>1, <1>4 DEF left, InPage
<1>13. CASE Len(page) = limit
  <2>1. /\ place[page[limit]] \in Texts
        /\ Above(place, place[page[limit]]) = Above(place, from) \ InPage(page)
    BY <1>0, <1>13, PageEnd
  <2>2. \A r \in rows : r \in Above(place, place[page[limit]]) <=> r \notin InPage(all)
    BY <1>11, <1>12, <2>1 DEF left
  <2> QED
    BY <1>5, <1>10, <1>13, <2>1, <2>2 DEF Delivers, all
<1>14. CASE Len(page) # limit
  <2>1. rows = InPage(all)
    BY <1>2, <1>11, <1>12, <1>14
  <2> QED
    BY <1>5, <1>10, <1>14, <2>1 DEF Delivers, all
<1> QED
  BY <1>13, <1>14

---------------------------------------------------------------------------
(* Cursors of two and of three columns, of one length each. *)
OneLengthIn(p) == \A r, s \in rows : Len(p[r]) = Len(p[s])

LEMMA TwoAgree ==
  ASSUME NEW p \in [rows -> Texts], NEW q \in [rows -> Texts], OneLengthIn(p),
         \A r, s \in rows : p[r] = p[s] /\ q[r] = q[s] => r = s
  PROVE  Agree([r \in rows |-> Joined(p[r], q[r])], [r \in rows |-> <<p[r], q[r]>>])
<1> DEFINE place == [r \in rows |-> Joined(p[r], q[r])]
           key == [r \in rows |-> <<p[r], q[r]>>]
<1>1. place \in [rows -> Texts]
  BY JoinedText
<1>2. ASSUME NEW a \in rows, NEW b \in rows
      PROVE  /\ place[a] = place[b] => a = b
             /\ KeyLess(key[a], key[b]) <=> TextLess(place[a], place[b])
  <2>1. p[a] \in Texts /\ q[a] \in Texts /\ p[b] \in Texts /\ q[b] \in Texts /\ Len(p[a]) = Len(p[b])
    BY DEF OneLengthIn
  <2>2. /\ place[a] = Joined(p[a], q[a]) /\ place[b] = Joined(p[b], q[b])
        /\ key[a] = <<p[a], q[a]>> /\ key[b] = <<p[b], q[b]>>
    OBVIOUS
  <2> HIDE DEF place, key
  <2>3. place[a] = place[b] => a = b
    <3>1. Joined(p[a], q[a]) = Joined(p[b], q[b]) => p[a] = p[b] /\ q[a] = q[b]
      BY <2>1, JoinedEqual
    <3> QED
      BY <2>2, <3>1
  <2>4. KeyLess(key[a], key[b]) <=> TextLess(p[a], p[b]) \/ (p[a] = p[b] /\ TextLess(q[a], q[b]))
    BY <2>2, KeyOfTwo
  <2>5. TextLess(place[a], place[b]) <=> TextLess(p[a], p[b]) \/ (p[a] = p[b] /\ TextLess(q[a], q[b]))
    BY <2>1, <2>2, JoinedLess
  <2> QED
    BY <2>3, <2>4, <2>5
<1> QED
  BY <1>1, <1>2 DEF Agree

(* The number of the second column is compared as a number by the query and as a
   text by the cursor. *)
LEMMA DatedAgree ==
  ASSUME NEW p \in [rows -> Texts], NEW q \in [rows -> Texts], OneLengthIn(p), OneLengthIn(q),
         \A r, s \in rows : p[r] = p[s] /\ q[r] = q[s] => r = s
  PROVE  Agree([r \in rows |-> Joined(p[r], q[r])], [r \in rows |-> <<p[r], Number(q[r])>>])
<1> DEFINE place == [r \in rows |-> Joined(p[r], q[r])]
           key == [r \in rows |-> <<p[r], Number(q[r])>>]
<1>1. place \in [rows -> Texts]
  BY JoinedText
<1>2. ASSUME NEW a \in rows, NEW b \in rows
      PROVE  /\ place[a] = place[b] => a = b
             /\ KeyLess(key[a], key[b]) <=> TextLess(place[a], place[b])
  <2>1. /\ p[a] \in Texts /\ q[a] \in Texts /\ p[b] \in Texts /\ q[b] \in Texts
        /\ Len(p[a]) = Len(p[b]) /\ Len(q[a]) = Len(q[b])
    BY DEF OneLengthIn
  <2>2. /\ place[a] = Joined(p[a], q[a]) /\ place[b] = Joined(p[b], q[b])
        /\ key[a] = <<p[a], Number(q[a])>> /\ key[b] = <<p[b], Number(q[b])>>
    OBVIOUS
  <2> HIDE DEF place, key
  <2>3. place[a] = place[b] => a = b
    <3>1. Joined(p[a], q[a]) = Joined(p[b], q[b]) => p[a] = p[b] /\ q[a] = q[b]
      BY <2>1, JoinedEqual
    <3> QED
      BY <2>2, <3>1
  <2>4. KeyLess(key[a], key[b]) <=>
          TextLess(p[a], p[b]) \/ (p[a] = p[b] /\ TextLess(Number(q[a]), Number(q[b])))
    BY <2>2, KeyOfTwo
  <2>5. TextLess(Number(q[a]), Number(q[b])) <=> TextLess(q[a], q[b])
    BY <2>1, NumberLess
  <2>6. TextLess(place[a], place[b]) <=> TextLess(p[a], p[b]) \/ (p[a] = p[b] /\ TextLess(q[a], q[b]))
    BY <2>1, <2>2, JoinedLess
  <2> QED
    BY <2>3, <2>4, <2>5, <2>6
<1> QED
  BY <1>1, <1>2 DEF Agree

LEMMA ThreeAgree ==
  ASSUME NEW p \in [rows -> Texts], NEW q \in [rows -> Texts], NEW t \in [rows -> Texts],
         OneLengthIn(p), OneLengthIn(q),
         \A r, s \in rows : p[r] = p[s] /\ q[r] = q[s] /\ t[r] = t[s] => r = s
  PROVE  Agree([r \in rows |-> Joined(Joined(p[r], q[r]), t[r])],
               [r \in rows |-> <<p[r], q[r], t[r]>>])
<1> DEFINE place == [r \in rows |-> Joined(Joined(p[r], q[r]), t[r])]
           key == [r \in rows |-> <<p[r], q[r], t[r]>>]
<1>1. place \in [rows -> Texts]
  BY JoinedText
<1>2. ASSUME NEW a \in rows, NEW b \in rows
      PROVE  /\ place[a] = place[b] => a = b
             /\ KeyLess(key[a], key[b]) <=> TextLess(place[a], place[b])
  <2> DEFINE x == Joined(p[a], q[a])
             y == Joined(p[b], q[b])
  <2>1. /\ p[a] \in Texts /\ q[a] \in Texts /\ p[b] \in Texts /\ q[b] \in Texts
        /\ t[a] \in Texts /\ t[b] \in Texts
        /\ Len(p[a]) = Len(p[b]) /\ Len(q[a]) = Len(q[b])
    BY DEF OneLengthIn
  <2>2. x \in Texts /\ y \in Texts /\ Len(x) = Len(y)
    <3>1. x \in Texts /\ Len(x) = Len(p[a]) + 1 + Len(q[a])
      BY <2>1, JoinedText
    <3>2. y \in Texts /\ Len(y) = Len(p[b]) + 1 + Len(q[b])
      BY <2>1, JoinedText
    <3> QED
      BY <2>1, <3>1, <3>2
  <2>3. /\ place[a] = Joined(x, t[a]) /\ place[b] = Joined(y, t[b])
        /\ key[a] = <<p[a], q[a], t[a]>> /\ key[b] = <<p[b], q[b], t[b]>>
    OBVIOUS
  <2>4. x = y => p[a] = p[b] /\ q[a] = q[b]
    BY <2>1, JoinedEqual
  <2>5. TextLess(x, y) <=> TextLess(p[a], p[b]) \/ (p[a] = p[b] /\ TextLess(q[a], q[b]))
    BY <2>1, JoinedLess
  <2>6. p[a] = p[b] /\ q[a] = q[b] => x = y
    OBVIOUS
  <2> HIDE DEF place, key, x, y
  <2>7. place[a] = place[b] => a = b
    <3>1. Joined(x, t[a]) = Joined(y, t[b]) => x = y /\ t[a] = t[b]
      BY <2>1, <2>2, JoinedEqual
    <3> QED
      BY <2>3, <2>4, <3>1
  <2>8. KeyLess(key[a], key[b]) <=>
          \/ TextLess(p[a], p[b])
          \/ p[a] = p[b] /\ (TextLess(q[a], q[b]) \/ (q[a] = q[b] /\ TextLess(t[a], t[b])))
    BY <2>3, KeyOfThree
  <2>9. TextLess(place[a], place[b]) <=> TextLess(x, y) \/ (x = y /\ TextLess(t[a], t[b]))
    BY <2>1, <2>2, <2>3, JoinedLess
  <2> QED
    BY <2>4, <2>5, <2>6, <2>7, <2>8, <2>9
<1> QED
  BY <1>1, <1>2 DEF Agree

---------------------------------------------------------------------------
(* The tables. *)
TableOK ==
    /\ entity \in Tables \cup {"none"}
    /\ limit \in Nat \ {0}
    /\ finished \in BOOLEAN
    /\ IsFiniteSet(rows)
    /\ entity \in ById => rows \subseteq [id : Texts]
    /\ entity \in ByNumber => rows \subseteq [id : Texts \ {<<>>}]
    /\ entity \in Dated => rows \subseteq [date : Texts, id : Texts]
    /\ entity = "product_barcodes" => rows \subseteq [product : Texts, barcode : Texts]
    /\ entity = "store_assortment" =>
          rows \subseteq [location : Texts, product : Texts, start : Texts]
    /\ entity = "order_rule" => rows \subseteq [rule : Texts, product : Texts]
    /\ entity = "supply_spec" =>
          rows \subseteq [product : Texts, supplier : Texts, from : Texts, location : Texts]
    /\ entity = "location_stock_snapshot" =>
          rows \subseteq [date : Texts, location : Texts, product : Texts]
    /\ entity = "supplier_stock_snapshot" =>
          rows \subseteq [date : Texts, supplier : Texts, product : Texts]

\* The text a cursor makes of a row, as the query orders it.
Place == [r \in rows |->
    CASE entity \in ById -> r.id
      [] entity \in ByNumber -> Number(r.id)
      [] entity \in Dated -> Joined(r.date, r.id)
      [] entity = "product_barcodes" -> Joined(r.product, r.barcode)
      [] entity = "store_assortment" -> Joined(Joined(r.location, r.product), r.start)
      [] entity = "order_rule" -> Joined(r.rule, r.product)
      [] entity = "supply_spec" -> Joined(Joined(r.product, r.supplier), r.location)
      [] entity = "location_stock_snapshot" -> Joined(Joined(r.date, r.location), r.product)
      [] entity = "supplier_stock_snapshot" -> Joined(Joined(r.date, r.supplier), r.product)
      [] OTHER -> <<>>]
From == IF entity \in ByNumber THEN Number(after) ELSE after
Claimed == SingleKey \/ (entity \notin ById \cup ByNumber /\ OneLength /\ OneCursor)

PagesInv == TableOK /\ (Claimed => Delivers(Place, From, delivered, finished))

LEMMA KeyTexts ==
  Ids \subseteq Texts /\ Numbers \subseteq Texts \ {<<>>} /\ Dates \subseteq Texts
<1>1. ASSUME NEW t \in Ids \cup Numbers \cup Dates PROVE t \in Texts
  <2>1. t \in Seq(0..(Bar - 1)) /\ 0..(Bar - 1) \subseteq Nat
    BY EntityPagesAssumption DEF Bar
  <2> QED
    BY <2>1, SeqMonotonic DEF Texts
<1> QED
  BY <1>1, EntityPagesAssumption

LEMMA UpToRows ==
  ASSUME NEW n, NEW S, NEW T, S \subseteq T
  PROVE  \A t \in UpTo(n, S) : t \subseteq T
BY DEF UpTo, kSubset

LEMMA TableStarts ==
  ASSUME PagesInit
  PROVE  TableOK
<1> USE DEF Tables, ById, ByNumber, Dated
<1>1. /\ entity \in Tables /\ rows \in Contents[entity] /\ IsFiniteSet(rows)
      /\ limit \in Nat \ {0} /\ finished \in BOOLEAN
  BY EntityPagesAssumption DEF PagesInit
<1>2. CASE entity \in ById
  <2>1. rows \in UpTo(MaxTable, [id : {<<>>} \cup Ids]) \cup UpTo(MaxTable, [id : Ids])
    BY <1>1, <1>2 DEF Contents
  <2>2. {<<>>} \cup Ids \subseteq Texts
    BY KeyTexts, EmptySeq DEF Texts
  <2>3. [id : {<<>>} \cup Ids] \subseteq [id : Texts] /\ [id : Ids] \subseteq [id : Texts]
    BY <2>2
  <2>4. rows \subseteq [id : Texts]
    BY <2>1, <2>3, UpToRows
  <2> QED
    BY <1>1, <1>2, <2>4 DEF TableOK
<1>3. CASE entity \in ByNumber
  <2>1. rows \in UpTo(MaxTable, [id : Numbers])
    BY <1>1, <1>3 DEF Contents
  <2>2. [id : Numbers] \subseteq [id : Texts \ {<<>>}]
    BY KeyTexts
  <2>3. rows \subseteq [id : Texts \ {<<>>}]
    BY <2>1, <2>2, UpToRows
  <2> QED
    BY <1>1, <1>3, <2>3 DEF TableOK
<1>4. CASE entity \in Dated
  <2>1. rows \in UpTo(MaxTable, [date : Dates, id : Numbers])
    BY <1>1, <1>4 DEF Contents
  <2>2. [date : Dates, id : Numbers] \subseteq [date : Texts, id : Texts]
    BY KeyTexts
  <2>3. rows \subseteq [date : Texts, id : Texts]
    BY <2>1, <2>2, UpToRows
  <2> QED
    BY <1>1, <1>4, <2>3 DEF TableOK
<1>5. CASE entity = "product_barcodes"
  <2>1. rows \in UpTo(MaxTable, [product : Ids, barcode : Ids])
    BY <1>1, <1>5 DEF Contents
  <2>2. [product : Ids, barcode : Ids] \subseteq [product : Texts, barcode : Texts]
    BY KeyTexts
  <2>3. rows \subseteq [product : Texts, barcode : Texts]
    BY <2>1, <2>2, UpToRows
  <2> QED
    BY <1>1, <1>5, <2>3 DEF TableOK
<1>6. CASE entity = "store_assortment"
  <2>1. rows \in UpTo(MaxTable, [location : Ids, product : Ids, start : Dates])
    BY <1>1, <1>6 DEF Contents
  <2>2. [location : Ids, product : Ids, start : Dates]
          \subseteq [location : Texts, product : Texts, start : Texts]
    BY KeyTexts
  <2>3. rows \subseteq [location : Texts, product : Texts, start : Texts]
    BY <2>1, <2>2, UpToRows
  <2> QED
    BY <1>1, <1>6, <2>3 DEF TableOK
<1>7. CASE entity = "order_rule"
  <2>1. PICK S \in UpTo(2, Ids) :
          \E f \in [S -> {Ids} \cup {{p} : p \in Ids}] : rows = OrderRuleFanout(f)
    BY <1>1, <1>7 DEF Contents
  <2>2. PICK f \in [S -> {Ids} \cup {{p} : p \in Ids}] : rows = OrderRuleFanout(f)
    BY <2>1
  <2>3. S \subseteq Ids
    BY UpToRows
  <2>4. rows \subseteq [rule : Texts, product : Texts]
    BY <2>2, <2>3, KeyTexts DEF OrderRuleFanout
  <2> QED
    BY <1>1, <1>7, <2>4 DEF TableOK
<1>8. CASE entity = "supply_spec"
  <2> DEFINE Specs == [product : Ids, supplier : Ids, from : Dates]
             Fanouts == {SupplySpecFanout(s, l) : s \in UpTo(2, Specs), l \in UpTo(2, Ids)}
  <2>0. Contents["supply_spec"] = Fanouts
    BY DEF Contents
  <2> HIDE DEF Specs, Fanouts
  <2>1. rows \in Fanouts
    BY <1>1, <1>8, <2>0
  <2>2. PICK s \in UpTo(2, Specs), l \in UpTo(2, Ids) : rows = SupplySpecFanout(s, l)
    BY <2>1 DEF Fanouts
  <2>3. s \subseteq Specs /\ l \subseteq Ids
    BY UpToRows
  <2>4. rows \subseteq [product : Texts, supplier : Texts, from : Texts, location : Texts]
    BY <2>2, <2>3, KeyTexts DEF SupplySpecFanout, Specs
  <2> QED
    BY <1>1, <1>8, <2>4 DEF TableOK
<1>9. CASE entity = "location_stock_snapshot"
  <2>1. rows \in UpTo(MaxTable, [date : Dates, location : Ids, product : Ids])
    BY <1>1, <1>9 DEF Contents
  <2>2. [date : Dates, location : Ids, product : Ids]
          \subseteq [date : Texts, location : Texts, product : Texts]
    BY KeyTexts
  <2>3. rows \subseteq [date : Texts, location : Texts, product : Texts]
    BY <2>1, <2>2, UpToRows
  <2> QED
    BY <1>1, <1>9, <2>3 DEF TableOK
<1>10. CASE entity = "supplier_stock_snapshot"
  <2>1. rows \in UpTo(MaxTable, [date : Dates, supplier : Ids, product : Ids])
    BY <1>1, <1>10 DEF Contents
  <2>2. [date : Dates, supplier : Ids, product : Ids]
          \subseteq [date : Texts, supplier : Texts, product : Texts]
    BY KeyTexts
  <2>3. rows \subseteq [date : Texts, supplier : Texts, product : Texts]
    BY <2>1, <2>2, UpToRows
  <2> QED
    BY <1>1, <1>10, <2>3 DEF TableOK
<1> QED
  BY <1>1, <1>2, <1>3, <1>4, <1>5, <1>6, <1>7, <1>8, <1>9, <1>10

LEMMA PlaceOfTable ==
  /\ entity \in ById => Place = [r \in rows |-> r.id]
  /\ entity \in ByNumber => Place = [r \in rows |-> Number(r.id)]
  /\ entity \in Dated => Place = [r \in rows |-> Joined(r.date, r.id)]
  /\ entity = "product_barcodes" => Place = [r \in rows |-> Joined(r.product, r.barcode)]
  /\ entity = "store_assortment" =>
        Place = [r \in rows |-> Joined(Joined(r.location, r.product), r.start)]
  /\ entity = "order_rule" => Place = [r \in rows |-> Joined(r.rule, r.product)]
  /\ entity = "supply_spec" =>
        Place = [r \in rows |-> Joined(Joined(r.product, r.supplier), r.location)]
  /\ entity = "location_stock_snapshot" =>
        Place = [r \in rows |-> Joined(Joined(r.date, r.location), r.product)]
  /\ entity = "supplier_stock_snapshot" =>
        Place = [r \in rows |-> Joined(Joined(r.date, r.supplier), r.product)]
<1> USE DEF ById, ByNumber, Dated
<1>1. ASSUME entity \in ById PROVE Place = [r \in rows |-> r.id]
  BY <1>1 DEF Place
<1>2. ASSUME entity \in ByNumber PROVE Place = [r \in rows |-> Number(r.id)]
  BY <1>2 DEF Place
<1>3. ASSUME entity \in Dated PROVE Place = [r \in rows |-> Joined(r.date, r.id)]
  BY <1>3 DEF Place
<1>4. ASSUME entity = "product_barcodes"
      PROVE  Place = [r \in rows |-> Joined(r.product, r.barcode)]
  BY <1>4 DEF Place
<1>5. ASSUME entity = "store_assortment"
      PROVE  Place = [r \in rows |-> Joined(Joined(r.location, r.product), r.start)]
  BY <1>5 DEF Place
<1>6. ASSUME entity = "order_rule" PROVE Place = [r \in rows |-> Joined(r.rule, r.product)]
  BY <1>6 DEF Place
<1>7. ASSUME entity = "supply_spec"
      PROVE  Place = [r \in rows |-> Joined(Joined(r.product, r.supplier), r.location)]
  BY <1>7 DEF Place
<1>8. ASSUME entity = "location_stock_snapshot"
      PROVE  Place = [r \in rows |-> Joined(Joined(r.date, r.location), r.product)]
  BY <1>8 DEF Place
<1>9. ASSUME entity = "supplier_stock_snapshot"
      PROVE  Place = [r \in rows |-> Joined(Joined(r.date, r.supplier), r.product)]
  BY <1>9 DEF Place
<1> QED
  BY <1>1, <1>2, <1>3, <1>4, <1>5, <1>6, <1>7, <1>8, <1>9

LEMMA IdAgree ==
  ASSUME TableOK, entity \in ById
  PROVE  Agree(Place, [r \in rows |-> <<r.id>>])
<1>1. rows \subseteq [id : Texts] /\ Place = [r \in rows |-> r.id]
  BY PlaceOfTable DEF TableOK
<1>2. \A a, b \in rows : KeyLess(<<a.id>>, <<b.id>>) <=> TextLess(a.id, b.id)
  BY KeyOfOne
<1> QED
  BY <1>1, <1>2 DEF Agree

LEMMA NumberAgree ==
  ASSUME TableOK, entity \in ByNumber
  PROVE  Agree(Place, [r \in rows |-> <<Number(r.id)>>])
<1>1. rows \subseteq [id : Texts \ {<<>>}] /\ Place = [r \in rows |-> Number(r.id)]
  BY PlaceOfTable DEF TableOK
<1>2. \A a, b \in rows :
        KeyLess(<<Number(a.id)>>, <<Number(b.id)>>) <=> TextLess(Number(a.id), Number(b.id))
  BY KeyOfOne
<1>3. \A a, b \in rows : Number(a.id) = Number(b.id) => a = b
  BY <1>1, NumberEqual
<1>4. Place \in [rows -> Texts]
  BY <1>1, NumberText
<1> QED
  BY <1>1, <1>2, <1>3, <1>4 DEF Agree

LEMMA DatesAgree ==
  ASSUME TableOK, Claimed, entity \in Dated
  PROVE  Agree(Place, [r \in rows |-> <<r.date, Number(r.id)>>])
<1> DEFINE p == [r \in rows |-> r.date]
           q == [r \in rows |-> r.id]
<1>1. /\ rows \subseteq [date : Texts, id : Texts] /\ OneLength /\ OneCursor
      /\ Place = [r \in rows |-> Joined(r.date, r.id)]
  BY PlaceOfTable DEF TableOK, Claimed, SingleKey, ById, ByNumber, Dated
<1>2. p \in [rows -> Texts] /\ q \in [rows -> Texts]
  BY <1>1
<1>3. OneLengthIn(p) /\ OneLengthIn(q)
  BY <1>1 DEF OneLengthIn, OneLength
<1>4. \A r, s \in rows : p[r] = p[s] /\ q[r] = q[s] => r = s
  BY <1>1
<1>5. Agree([r \in rows |-> Joined(p[r], q[r])], [r \in rows |-> <<p[r], Number(q[r])>>])
  <2> HIDE DEF p, q
  <2> QED
    BY <1>2, <1>3, <1>4, DatedAgree
<1> QED
  BY <1>1, <1>5

LEMMA BarcodesAgree ==
  ASSUME TableOK, Claimed, entity = "product_barcodes"
  PROVE  Agree(Place, [r \in rows |-> <<r.product, r.barcode>>])
<1> DEFINE p == [r \in rows |-> r.product]
           q == [r \in rows |-> r.barcode]
<1>1. /\ rows \subseteq [product : Texts, barcode : Texts] /\ OneLength /\ OneCursor
      /\ Place = [r \in rows |-> Joined(r.product, r.barcode)]
  BY PlaceOfTable DEF TableOK, Claimed, SingleKey, ById, ByNumber
<1>2. p \in [rows -> Texts] /\ q \in [rows -> Texts]
  BY <1>1
<1>3. OneLengthIn(p)
  BY <1>1 DEF OneLengthIn, OneLength
<1>4. \A r, s \in rows : p[r] = p[s] /\ q[r] = q[s] => r = s
  BY <1>1
<1>5. Agree([r \in rows |-> Joined(p[r], q[r])], [r \in rows |-> <<p[r], q[r]>>])
  <2> HIDE DEF p, q
  <2> QED
    BY <1>2, <1>3, <1>4, TwoAgree
<1> QED
  BY <1>1, <1>5

LEMMA AssortmentAgree ==
  ASSUME TableOK, Claimed, entity = "store_assortment"
  PROVE  Agree(Place, [r \in rows |-> <<r.location, r.product, r.start>>])
<1> DEFINE p == [r \in rows |-> r.location]
           q == [r \in rows |-> r.product]
           t == [r \in rows |-> r.start]
<1>1. /\ rows \subseteq [location : Texts, product : Texts, start : Texts]
      /\ OneLength /\ OneCursor
      /\ Place = [r \in rows |-> Joined(Joined(r.location, r.product), r.start)]
  BY PlaceOfTable DEF TableOK, Claimed, SingleKey, ById, ByNumber
<1>2. p \in [rows -> Texts] /\ q \in [rows -> Texts] /\ t \in [rows -> Texts]
  BY <1>1
<1>3. OneLengthIn(p) /\ OneLengthIn(q)
  BY <1>1 DEF OneLengthIn, OneLength
<1>4. \A r, s \in rows : p[r] = p[s] /\ q[r] = q[s] /\ t[r] = t[s] => r = s
  BY <1>1
<1>5. Agree([r \in rows |-> Joined(Joined(p[r], q[r]), t[r])],
            [r \in rows |-> <<p[r], q[r], t[r]>>])
  <2> HIDE DEF p, q, t
  <2> QED
    BY <1>2, <1>3, <1>4, ThreeAgree
<1> QED
  BY <1>1, <1>5

LEMMA RulesAgree ==
  ASSUME TableOK, Claimed, entity = "order_rule"
  PROVE  Agree(Place, [r \in rows |-> <<r.rule, r.product>>])
<1> DEFINE p == [r \in rows |-> r.rule]
           q == [r \in rows |-> r.product]
<1>1. /\ rows \subseteq [rule : Texts, product : Texts] /\ OneLength /\ OneCursor
      /\ Place = [r \in rows |-> Joined(r.rule, r.product)]
  BY PlaceOfTable DEF TableOK, Claimed, SingleKey, ById, ByNumber
<1>2. p \in [rows -> Texts] /\ q \in [rows -> Texts]
  BY <1>1
<1>3. OneLengthIn(p)
  BY <1>1 DEF OneLengthIn, OneLength
<1>4. \A r, s \in rows : p[r] = p[s] /\ q[r] = q[s] => r = s
  BY <1>1
<1>5. Agree([r \in rows |-> Joined(p[r], q[r])], [r \in rows |-> <<p[r], q[r]>>])
  <2> HIDE DEF p, q
  <2> QED
    BY <1>2, <1>3, <1>4, TwoAgree
<1> QED
  BY <1>1, <1>5

\* valid_from is no column of the cursor.
LEMMA SpecsAgree ==
  ASSUME TableOK, Claimed, entity = "supply_spec"
  PROVE  Agree(Place, [r \in rows |-> <<r.product, r.supplier, r.location>>])
<1> DEFINE p == [r \in rows |-> r.product]
           q == [r \in rows |-> r.supplier]
           t == [r \in rows |-> r.location]
<1>1. /\ rows \subseteq [product : Texts, supplier : Texts, from : Texts, location : Texts]
      /\ OneLength /\ OneCursor
      /\ Place = [r \in rows |-> Joined(Joined(r.product, r.supplier), r.location)]
  BY PlaceOfTable DEF TableOK, Claimed, SingleKey, ById, ByNumber
<1>2. p \in [rows -> Texts] /\ q \in [rows -> Texts] /\ t \in [rows -> Texts]
  BY <1>1
<1>3. OneLengthIn(p) /\ OneLengthIn(q)
  BY <1>1 DEF OneLengthIn, OneLength
<1>4. \A r, s \in rows : p[r] = p[s] /\ q[r] = q[s] /\ t[r] = t[s] => r = s
  BY <1>1 DEF OneCursor
<1>5. Agree([r \in rows |-> Joined(Joined(p[r], q[r]), t[r])],
            [r \in rows |-> <<p[r], q[r], t[r]>>])
  <2> HIDE DEF p, q, t
  <2> QED
    BY <1>2, <1>3, <1>4, ThreeAgree
<1> QED
  BY <1>1, <1>5

LEMMA StocksAgree ==
  ASSUME TableOK, Claimed, entity = "location_stock_snapshot"
  PROVE  Agree(Place, [r \in rows |-> <<r.date, r.location, r.product>>])
<1> DEFINE p == [r \in rows |-> r.date]
           q == [r \in rows |-> r.location]
           t == [r \in rows |-> r.product]
<1>1. /\ rows \subseteq [date : Texts, location : Texts, product : Texts]
      /\ OneLength /\ OneCursor
      /\ Place = [r \in rows |-> Joined(Joined(r.date, r.location), r.product)]
  BY PlaceOfTable DEF TableOK, Claimed, SingleKey, ById, ByNumber
<1>2. p \in [rows -> Texts] /\ q \in [rows -> Texts] /\ t \in [rows -> Texts]
  BY <1>1
<1>3. OneLengthIn(p) /\ OneLengthIn(q)
  BY <1>1 DEF OneLengthIn, OneLength
<1>4. \A r, s \in rows : p[r] = p[s] /\ q[r] = q[s] /\ t[r] = t[s] => r = s
  BY <1>1
<1>5. Agree([r \in rows |-> Joined(Joined(p[r], q[r]), t[r])],
            [r \in rows |-> <<p[r], q[r], t[r]>>])
  <2> HIDE DEF p, q, t
  <2> QED
    BY <1>2, <1>3, <1>4, ThreeAgree
<1> QED
  BY <1>1, <1>5

LEMMA SupplierStocksAgree ==
  ASSUME TableOK, Claimed, entity = "supplier_stock_snapshot"
  PROVE  Agree(Place, [r \in rows |-> <<r.date, r.supplier, r.product>>])
<1> DEFINE p == [r \in rows |-> r.date]
           q == [r \in rows |-> r.supplier]
           t == [r \in rows |-> r.product]
<1>1. /\ rows \subseteq [date : Texts, supplier : Texts, product : Texts]
      /\ OneLength /\ OneCursor
      /\ Place = [r \in rows |-> Joined(Joined(r.date, r.supplier), r.product)]
  BY PlaceOfTable DEF TableOK, Claimed, SingleKey, ById, ByNumber
<1>2. p \in [rows -> Texts] /\ q \in [rows -> Texts] /\ t \in [rows -> Texts]
  BY <1>1
<1>3. OneLengthIn(p) /\ OneLengthIn(q)
  BY <1>1 DEF OneLengthIn, OneLength
<1>4. \A r, s \in rows : p[r] = p[s] /\ q[r] = q[s] /\ t[r] = t[s] => r = s
  BY <1>1
<1>5. Agree([r \in rows |-> Joined(Joined(p[r], q[r]), t[r])],
            [r \in rows |-> <<p[r], q[r], t[r]>>])
  <2> HIDE DEF p, q, t
  <2> QED
    BY <1>2, <1>3, <1>4, ThreeAgree
<1> QED
  BY <1>1, <1>5

---------------------------------------------------------------------------
(* Every step.  At the start all rows are above the empty cursor. *)
LEMMA FirstPage ==
  ASSUME TableOK, Claimed, entity \in Tables, after = <<>>
  PROVE  From \in Texts /\ \A r \in rows : TextLess(From, Place[r])
<1>1. CASE entity \in ById
  <2>1. From = <<>> /\ From \in Texts
    BY <1>1, EmptySeq DEF From, ById, ByNumber, Texts
  <2>2. rows \subseteq [id : Texts] /\ Place = [r \in rows |-> r.id] /\ \A r \in rows : r.id # <<>>
    BY <1>1, PlaceOfTable DEF TableOK, Claimed, SingleKey, ById, ByNumber
  <2> QED
    BY <2>1, <2>2, EmptyLess
<1>2. CASE entity \in ByNumber
  <2>1. From = Number(<<>>) /\ From \in Texts
    BY <1>2, EmptySeq, NumberText DEF From, Texts
  <2>2. rows \subseteq [id : Texts \ {<<>>}] /\ Place = [r \in rows |-> Number(r.id)]
    BY <1>2, PlaceOfTable DEF TableOK
  <2> QED
    BY <2>1, <2>2, NumberText
<1>3. CASE entity \notin ById \cup ByNumber
  <2>1. From = <<>> /\ From \in Texts
    BY <1>3, EmptySeq DEF From, Texts
  <2>2. \A r \in rows : Place[r] \in Texts /\ Place[r] # <<>>
    <3>1. CASE entity \in Dated
      BY <3>1, PlaceOfTable, JoinedText DEF TableOK
    <3>2. CASE entity = "product_barcodes"
      BY <3>2, PlaceOfTable, JoinedText DEF TableOK
    <3>3. CASE entity = "store_assortment"
      BY <3>3, PlaceOfTable, JoinedText DEF TableOK
    <3>4. CASE entity = "order_rule"
      BY <3>4, PlaceOfTable, JoinedText DEF TableOK
    <3>5. CASE entity = "supply_spec"
      <4>1. rows \subseteq [product : Texts, supplier : Texts, from : Texts, location : Texts]
        BY <3>5 DEF TableOK
      <4>2. \A r \in rows : Joined(r.product, r.supplier) \in Texts
        BY <4>1, JoinedText
      <4>3. \A r \in rows : Place[r] = Joined(Joined(r.product, r.supplier), r.location)
        BY <3>5, PlaceOfTable
      <4> QED
        BY <4>1, <4>2, <4>3, JoinedText
    <3>6. CASE entity = "location_stock_snapshot"
      BY <3>6, PlaceOfTable, JoinedText DEF TableOK
    <3>7. CASE entity = "supplier_stock_snapshot"
      BY <3>7, PlaceOfTable, JoinedText DEF TableOK
    <3> QED
      BY <1>3, <3>1, <3>2, <3>3, <3>4, <3>5, <3>6, <3>7 DEF Tables
  <2> QED
    BY <2>1, <2>2, EmptyLess
<1> QED
  BY <1>1, <1>2, <1>3

LEMMA PagesStart ==
  ASSUME PagesInit
  PROVE  PagesInv
<1>1. TableOK /\ entity \in Tables /\ after = <<>> /\ delivered = <<>> /\ finished = FALSE
  BY TableStarts DEF PagesInit
<1>2. ASSUME Claimed PROVE Delivers(Place, From, delivered, finished)
  <2>1. From \in Texts /\ \A r \in rows : r \in Above(Place, From)
    BY <1>1, <1>2, FirstPage DEF Above
  <2>2. <<>> \in Seq(rows) /\ NoneTwice(<<>>) /\ InPage(<<>>) = {}
    BY DEF NoneTwice, InPage
  <2> QED
    BY <1>1, <2>1, <2>2 DEF Delivers
<1> QED
  BY <1>1, <1>2 DEF PagesInv

LEMMA PagesIdleKeeps ==
  ASSUME PagesIdle
  PROVE  PagesInv
<1>1. /\ entity = "none" /\ rows = {} /\ limit = 1 /\ after = <<>>
      /\ delivered = <<>> /\ finished = TRUE
  BY DEF PagesIdle
<1>2. TableOK
  BY <1>1, FS_EmptySet DEF TableOK, ById, ByNumber, Dated
<1>3. <<>> \in Seq(rows) /\ NoneTwice(<<>>) /\ InPage(<<>>) = {}
  BY DEF NoneTwice, InPage
<1> QED
  BY <1>1, <1>2, <1>3 DEF PagesInv, Delivers

(* What a request does, whichever the table. *)
Turns(key) ==
    /\ ~finished
    /\ \E page \in Page(Above(Place, From), key) :
         /\ delivered' = delivered \o page
         /\ IF Len(page) = limit
            THEN From' = Place[page[limit]] /\ finished' = FALSE
            ELSE finished' = TRUE
    /\ UNCHANGED <<entity, rows, limit>>

LEMMA TurnsKeep ==
  ASSUME PagesInv, NEW key, Claimed => Agree(Place, key), Turns(key)
  PROVE  PagesInv'
<1>1. entity' = entity /\ rows' = rows /\ limit' = limit
  BY DEF Turns
<1>0. finished' \in BOOLEAN
  BY DEF Turns
<1>2. TableOK' /\ (Claimed' <=> Claimed) /\ Place' = Place
  BY <1>0, <1>1 DEF PagesInv, TableOK, Claimed, SingleKey, OneLength, OneCursor, Place
<1>3. ASSUME Claimed PROVE Delivers(Place, From, delivered, finished)'
  <2>1. PICK page \in Page(Above(Place, From), key) :
          /\ delivered' = delivered \o page
          /\ IF Len(page) = limit
             THEN From' = Place[page[limit]] /\ finished' = FALSE
             ELSE finished' = TRUE
    BY DEF Turns
  <2>2. Agree(Place, key) /\ Delivers(Place, From, delivered, FALSE)
    BY <1>3 DEF PagesInv, Turns, Delivers
  <2>3. IF Len(page) = limit
        THEN Delivers(Place, Place[page[limit]], delivered \o page, FALSE)
        ELSE \A any : Delivers(Place, any, delivered \o page, TRUE)
    BY <2>2, PageAdds DEF PagesInv, TableOK
  <2>4. Delivers(Place, From', delivered', finished')
    BY <2>1, <2>3
  <2> QED
    BY <1>1, <1>2, <2>4 DEF Delivers, Above
<1> QED
  BY <1>2, <1>3 DEF PagesInv

(* A table whose cursor is the text the query compares. *)
LEMMA GetTurns ==
  ASSUME PagesInv, NEW e, e \notin ByNumber, NEW key,
         Get(e, Page(Above(Place, after), key), Place)
  PROVE  Turns(key)
<1>1. /\ entity = e /\ ~finished /\ finished \in BOOLEAN
      /\ UNCHANGED <<entity, rows, limit>>
  BY DEF Get, PagesInv, TableOK
<1>2. From = after /\ From' = after'
  BY <1>1 DEF From
<1>3. PICK page \in Page(Above(Place, after), key) :
        delivered' = delivered \o page /\ WriteNextCursor(page, Place)
  BY DEF Get
<1>4. IF Len(page) = limit
      THEN From' = Place[page[limit]] /\ finished' = FALSE
      ELSE finished' = TRUE
  BY <1>1, <1>2, <1>3 DEF WriteNextCursor
<1> QED
  BY <1>1, <1>2, <1>3, <1>4 DEF Turns

LEMMA IdKeeps ==
  ASSUME PagesInv, NEW e \in ById, Get(e, AfterId, Id)
  PROVE  PagesInv'
<1> DEFINE key == [r \in rows |-> <<r.id>>]
<1>1. entity = e /\ Place = Id /\ e \notin ByNumber
  BY PlaceOfTable DEF Get, Id, ById, ByNumber
<1>2. AfterId = Page(Above(Place, after), key)
  BY <1>1 DEF AfterId, Above, Id
<1>3. Agree(Place, key)
  BY <1>1, IdAgree DEF PagesInv
<1> HIDE DEF key
<1>4. Turns(key)
  BY <1>1, <1>2, GetTurns
<1> QED
  BY <1>3, <1>4, TurnsKeep

LEMMA NumberKeeps ==
  ASSUME PagesInv, NEW e \in ByNumber, Get(e, AfterNumber, Id)
  PROVE  PagesInv'
<1> DEFINE key == [r \in rows |-> <<Number(r.id)>>]
<1>1. /\ entity = e /\ ~finished /\ finished \in BOOLEAN
      /\ UNCHANGED <<entity, rows, limit>>
  BY DEF Get, PagesInv, TableOK
<1>2. /\ From = Number(after) /\ From' = Number(after')
      /\ Place = [r \in rows |-> Number(r.id)]
  BY <1>1, PlaceOfTable DEF From
<1>3. AfterNumber = Page(Above(Place, From), key)
  BY <1>2 DEF AfterNumber, Above
<1>4. Agree(Place, key)
  BY <1>1, NumberAgree DEF PagesInv
<1> HIDE DEF key
<1>5. PICK page \in Page(Above(Place, From), key) :
        delivered' = delivered \o page /\ WriteNextCursor(page, Id)
  BY <1>3 DEF Get
<1>6. ASSUME Len(page) = limit PROVE page[limit] \in rows
  <2>1. IsFiniteSet(Above(Place, From)) /\ Above(Place, From) \subseteq rows
    BY FS_Subset DEF Above, PagesInv, TableOK
  <2>2. page \in Seq(Above(Place, From)) /\ limit \in Nat \ {0}
    BY <2>1, PageRows DEF PagesInv, TableOK
  <2> QED
    BY <1>6, <2>1, <2>2
<1>7. IF Len(page) = limit
      THEN From' = Place[page[limit]] /\ finished' = FALSE
      ELSE finished' = TRUE
  BY <1>1, <1>2, <1>5, <1>6 DEF WriteNextCursor, Id
<1>8. Turns(key)
  BY <1>1, <1>5, <1>7 DEF Turns
<1> QED
  BY <1>4, <1>8, TurnsKeep

LEMMA DatedKeeps ==
  ASSUME PagesInv, NEW e \in Dated,
         Get(e, Page({r \in rows : TextLess(after, Joined(r.date, r.id))},
                     [r \in rows |-> <<r.date, Number(r.id)>>]),
             [r \in rows |-> Joined(r.date, r.id)])
  PROVE  PagesInv'
<1> DEFINE key == [r \in rows |-> <<r.date, Number(r.id)>>]
<1>1. entity = e /\ Place = [r \in rows |-> Joined(r.date, r.id)] /\ e \notin ByNumber
  BY PlaceOfTable DEF Get, Dated, ByNumber
<1>2. {r \in rows : TextLess(after, Joined(r.date, r.id))} = Above(Place, after)
  BY <1>1 DEF Above
<1>3. Claimed => Agree(Place, key)
  BY <1>1, DatesAgree DEF PagesInv
<1>4. Get(e, Page(Above(Place, after), key), Place)
  BY <1>1, <1>2
<1> HIDE DEF key
<1>5. Turns(key)
  BY <1>1, <1>4, GetTurns
<1> QED
  BY <1>3, <1>5, TurnsKeep

LEMMA BarcodesKeep ==
  ASSUME PagesInv, GetProductBarcodes
  PROVE  PagesInv'
<1> DEFINE key == [r \in rows |-> <<r.product, r.barcode>>]
<1>1. /\ entity = "product_barcodes" /\ entity \notin ByNumber
      /\ Place = [r \in rows |-> Joined(r.product, r.barcode)]
  BY PlaceOfTable DEF GetProductBarcodes, Get, ByNumber
<1>2. SelectProductBarcodes = Page(Above(Place, after), key)
  BY <1>1 DEF SelectProductBarcodes, Above
<1>3. Claimed => Agree(Place, key)
  BY <1>1, BarcodesAgree DEF PagesInv
<1>4. Get(entity, Page(Above(Place, after), key), Place)
  BY <1>1, <1>2 DEF GetProductBarcodes
<1> HIDE DEF key
<1>5. Turns(key)
  BY <1>1, <1>4, GetTurns
<1> QED
  BY <1>3, <1>5, TurnsKeep

LEMMA AssortmentKeep ==
  ASSUME PagesInv, GetStoreAssortment
  PROVE  PagesInv'
<1> DEFINE key == [r \in rows |-> <<r.location, r.product, r.start>>]
<1>1. /\ entity = "store_assortment" /\ entity \notin ByNumber
      /\ Place = [r \in rows |-> Joined(Joined(r.location, r.product), r.start)]
  BY PlaceOfTable DEF GetStoreAssortment, Get, ByNumber
<1>2. SelectStoreAssortment = Page(Above(Place, after), key)
  BY <1>1 DEF SelectStoreAssortment, Above
<1>3. Claimed => Agree(Place, key)
  BY <1>1, AssortmentAgree DEF PagesInv
<1>4. Get(entity, Page(Above(Place, after), key), Place)
  BY <1>1, <1>2 DEF GetStoreAssortment
<1> HIDE DEF key
<1>5. Turns(key)
  BY <1>1, <1>4, GetTurns
<1> QED
  BY <1>3, <1>5, TurnsKeep

LEMMA RulesKeep ==
  ASSUME PagesInv, GetOrderRule
  PROVE  PagesInv'
<1> DEFINE key == [r \in rows |-> <<r.rule, r.product>>]
<1>1. /\ entity = "order_rule" /\ entity \notin ByNumber
      /\ Place = [r \in rows |-> Joined(r.rule, r.product)]
  BY PlaceOfTable DEF GetOrderRule, Get, ByNumber
<1>2. SelectOrderRuleFanout = Page(Above(Place, after), key)
  BY <1>1 DEF SelectOrderRuleFanout, Above
<1>3. Claimed => Agree(Place, key)
  BY <1>1, RulesAgree DEF PagesInv
<1>4. Get(entity, Page(Above(Place, after), key), Place)
  BY <1>1, <1>2 DEF GetOrderRule
<1> HIDE DEF key
<1>5. Turns(key)
  BY <1>1, <1>4, GetTurns
<1> QED
  BY <1>3, <1>5, TurnsKeep

LEMMA SpecsKeep ==
  ASSUME PagesInv, GetSupplySpec
  PROVE  PagesInv'
<1> DEFINE key == [r \in rows |-> <<r.product, r.supplier, r.location>>]
<1>1. /\ entity = "supply_spec" /\ entity \notin ByNumber
      /\ Place = [r \in rows |-> Joined(Joined(r.product, r.supplier), r.location)]
  BY PlaceOfTable DEF GetSupplySpec, Get, ByNumber
<1>2. SelectSupplySpecFanout = Page(Above(Place, after), key)
  BY <1>1 DEF SelectSupplySpecFanout, Above
<1>3. Claimed => Agree(Place, key)
  BY <1>1, SpecsAgree DEF PagesInv
<1>4. Get(entity, Page(Above(Place, after), key), Place)
  BY <1>1, <1>2 DEF GetSupplySpec
<1> HIDE DEF key
<1>5. Turns(key)
  BY <1>1, <1>4, GetTurns
<1> QED
  BY <1>3, <1>5, TurnsKeep

LEMMA StocksKeep ==
  ASSUME PagesInv, GetLocationStockSnapshot
  PROVE  PagesInv'
<1> DEFINE key == [r \in rows |-> <<r.date, r.location, r.product>>]
<1>1. /\ entity = "location_stock_snapshot" /\ entity \notin ByNumber
      /\ Place = [r \in rows |-> Joined(Joined(r.date, r.location), r.product)]
  BY PlaceOfTable DEF GetLocationStockSnapshot, Get, ByNumber
<1>2. SelectLocationStockSnapshot = Page(Above(Place, after), key)
  BY <1>1 DEF SelectLocationStockSnapshot, Above
<1>3. Claimed => Agree(Place, key)
  BY <1>1, StocksAgree DEF PagesInv
<1>4. Get(entity, Page(Above(Place, after), key), Place)
  BY <1>1, <1>2 DEF GetLocationStockSnapshot
<1> HIDE DEF key
<1>5. Turns(key)
  BY <1>1, <1>4, GetTurns
<1> QED
  BY <1>3, <1>5, TurnsKeep

LEMMA SupplierStocksKeep ==
  ASSUME PagesInv, GetSupplierStockSnapshot
  PROVE  PagesInv'
<1> DEFINE key == [r \in rows |-> <<r.date, r.supplier, r.product>>]
<1>1. /\ entity = "supplier_stock_snapshot" /\ entity \notin ByNumber
      /\ Place = [r \in rows |-> Joined(Joined(r.date, r.supplier), r.product)]
  BY PlaceOfTable DEF GetSupplierStockSnapshot, Get, ByNumber
<1>2. SelectSupplierStockSnapshot = Page(Above(Place, after), key)
  BY <1>1 DEF SelectSupplierStockSnapshot, Above
<1>3. Claimed => Agree(Place, key)
  BY <1>1, SupplierStocksAgree DEF PagesInv
<1>4. Get(entity, Page(Above(Place, after), key), Place)
  BY <1>1, <1>2 DEF GetSupplierStockSnapshot
<1> HIDE DEF key
<1>5. Turns(key)
  BY <1>1, <1>4, GetTurns
<1> QED
  BY <1>3, <1>5, TurnsKeep

LEMMA ServeKeeps ==
  ASSUME PagesInv, ServePage
  PROVE  PagesInv'
<1>1. CASE GetProducts \/ GetCategory \/ GetSupplier \/ GetLocation \/ GetPromo \/ GetSupplyPlan
  <2>1. \E e \in ById : Get(e, AfterId, Id)
    BY <1>1 DEF ById, GetProducts, GetCategory, GetSupplier, GetLocation, GetPromo, GetSupplyPlan,
        SelectProducts, SelectCategory, SelectSupplier, SelectLocation, SelectPromo, SelectSupplyPlan
  <2> QED
    BY <2>1, IdKeeps
<1>2. CASE GetLifecycleEvents \/ GetMasterChangeLog
  <2>1. \E e \in ByNumber : Get(e, AfterNumber, Id)
    BY <1>2 DEF ByNumber, GetLifecycleEvents, GetMasterChangeLog,
        SelectLifecycleEvents, SelectMasterChangeLog
  <2> QED
    BY <2>1, NumberKeeps
<1>3. CASE GetReceiptLine
  <2>1. "receipt_line" \in Dated
    BY DEF Dated
  <2> QED
    BY <1>3, <2>1, DatedKeeps DEF GetReceiptLine, SelectReceiptLine
<1>4. CASE GetStockMovement
  <2>1. "stock_movement" \in Dated
    BY DEF Dated
  <2> QED
    BY <1>4, <2>1, DatedKeeps DEF GetStockMovement, SelectStockMovement
<1> QED
  BY <1>1, <1>2, <1>3, <1>4, BarcodesKeep, AssortmentKeep, RulesKeep, SpecsKeep, StocksKeep,
     SupplierStocksKeep DEF ServePage

LEMMA PagesInvComplete ==
  PagesInv => PagesEveryRowOnce
BY DEF PagesInv, PagesEveryRowOnce, Claimed, Delivers, NoneTwice, InPage

LEMMA PagesUnchanged ==
  ASSUME PagesInv, UNCHANGED pageVars
  PROVE  PagesInv'
<1>1. /\ entity' = entity /\ rows' = rows /\ limit' = limit /\ after' = after
      /\ delivered' = delivered /\ finished' = finished
  BY DEF pageVars
<1>2. TableOK' /\ (Claimed' <=> Claimed) /\ Place' = Place /\ From' = From
  BY <1>1 DEF PagesInv, TableOK, Claimed, SingleKey, OneLength, OneCursor, Place, From
<1> QED
  BY <1>1, <1>2 DEF PagesInv, Delivers, Above

(* Every row of a table is in one page and in no two, for texts of any length,
   tables and pages of any size, and each of the sixteen tables. *)
THEOREM PagesAlwaysComplete == Spec => []PagesEveryRowOnce
<1>1. Init => PagesInv
  BY PagesStart, PagesIdleKeeps DEF Init, AdapterIdle
<1>2. ASSUME PagesInv, [Next]_vars PROVE PagesInv'
  <2>1. CASE ServePage
    BY <1>2, <2>1, ServeKeeps
  <2>2. CASE UNCHANGED pageVars
    BY <1>2, <2>2, PagesUnchanged
  <2> QED
    BY <1>2, <2>1, <2>2 DEF Next, vars, adapterVars
<1> QED
  BY <1>1, <1>2, PagesInvComplete, PTL DEF Spec
====
