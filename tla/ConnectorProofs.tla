----------------------------- MODULE ConnectorProofs -----------------------------
(***************************************************************************)
(* CensusExact and ProjectionsHonest of GitHubIngest, for any number of    *)
(* runs, requests and keys, any page size and any additions and removals   *)
(* while a list is read, and OtlpSound of OtlpParser, for any bodies,      *)
(* limits and calls.                                                       *)
(*                                                                         *)
(* The census.  Ids are given in order, so a run newer than the first page *)
(* stands among the first of the upstream, no further down than as many    *)
(* runs as were removed; with fewer removed than a page holds it is not on *)
(* a later page.  What is there of the first page's list has no more runs  *)
(* after it than it had, and stands no further apart (Remains).  So with   *)
(* an equal count and nothing seen twice, a later page begins where the    *)
(* one before ended, and goes on without a gap (NextPage).                 *)
(*                                                                         *)
(* The projection.  The version that a request read is the latest or never *)
(* will be again, since versions are only appended; so what it writes over *)
(* that version differs from it (Stands).                                  *)
(*                                                                         *)
(* The parser.  A walk takes the places of a body in one strict order      *)
(* (Order), so the places it has taken are the first ones, and a place     *)
(* that yields a record has the rank of how many did so before (Walked):   *)
(* the buffers hold what the first places yield.  Only the lock's owner    *)
(* touches them (OneParses).  A place stands below accepted nodes alone    *)
(* (NodesAbove), hence each record is sound (VisitsAreSound).              *)
(***************************************************************************)
EXTENDS GitHubIngest, OtlpParser, FiniteSetTheorems, SequenceTheorems, TLAPS

RunType == {Run(i) : i \in {j \in Ids : ValidRun(Item[j])}}
ETags == {NoETag} \cup {ETag(list) : list \in Seq(Ids)}
FetchType == [pages : Nat, count : Int, runs : Seq(RunType), etag : ETags]
Outcome ==
  [state : {"NONE", "OBSERVED", "OBSERVED_PARTIAL", "UNAVAILABLE", "NOT_MODIFIED"},
   runs : Seq(RunType), etag : ETags, pages : Nat, complete : BOOLEAN]
VersionType == [body : Outcome, key : GitHubKey, by : Request]
Stages == {"new", "fetching", "fetched", "receipted", "projecting", "writing", "projected", "ok",
           "conflict", "lost"}

UpstreamTyped == upstream \in Seq(Ids) /\ removals \in Nat

GitHubTyped ==
  /\ UpstreamTyped
  /\ key \in [Request -> GitHubKey]
  /\ phase \in [Request -> Stages]
  /\ fetch \in [Request -> FetchType]
  /\ result \in [Request -> Outcome]
  /\ asked \in [Request -> ETags]
  /\ asOf \in [Request -> [list : Seq(Ids), removals : Nat]]
  /\ versions \in Seq(VersionType)
  /\ current \in [Request -> [previous : Nat, version : Nat, own : Nat]]
  /\ answer \in [Request -> [status : {"none", "ok", "conflict"}, etag : ETags, updated : BOOLEAN]]

\* Ids are given in order, so the upstream's decrease from the last one given.
Newest == Len(upstream) + removals
Listed ==
  \A j \in DOMAIN upstream :
    /\ upstream[j] + j <= Newest + 1
    /\ \A i \in DOMAIN upstream : i < j => upstream[j] < upstream[i]

\* How the upstream compares with the list of request r's first page: a run of now was in that
\* list or is newer than all of it; no more runs follow it than did then, and runs that both
\* lists have stand no further apart now.
Remains(r) ==
  LET then == asOf[r].list
      newest == Len(then) + asOf[r].removals
  IN  /\ asOf[r].removals <= removals /\ newest <= Newest
      /\ \A i \in DOMAIN then : /\ then[i] <= newest
                               /\ \A j \in DOMAIN then : i < j => then[j] < then[i]
      /\ \A j \in DOMAIN upstream : upstream[j] > newest \/ \E i \in DOMAIN then : then[i] = upstream[j]
      /\ \A j \in DOMAIN upstream, i \in DOMAIN then :
           upstream[j] = then[i] => Len(upstream) - j <= Len(then) - i
      /\ \A j, m \in DOMAIN upstream, i, n \in DOMAIN then :
           j <= m /\ upstream[j] = then[i] /\ upstream[m] = then[n] => m - j <= n - i

\* Fewer runs were removed since than a page holds.
Few(r) == removals - asOf[r].removals < PerPage

\* Runs that are the first ones of a list.
Begins(list, runs) == \A i \in DOMAIN runs : i \in DOMAIN list /\ runs[i] = Run(list[i])

Reading(r) ==
  /\ phase[r] = "new" => fetch[r] = NewFetch
  /\ phase[r] = "fetching" =>
       /\ fetch[r].pages = 0 => fetch[r] = NewFetch
       /\ fetch[r].pages > 0 =>
            /\ fetch[r].count = Len(asOf[r].list)
            /\ Len(fetch[r].runs) = fetch[r].pages * PerPage
            /\ Few(r) => Begins(asOf[r].list, fetch[r].runs)

Counted(r) ==
  /\ phase[r] \in {"new", "fetching"} <=> result[r].state = "NONE"
  /\ result[r].state = "OBSERVED" =>
       /\ Len(result[r].runs) = Len(asOf[r].list)
       /\ Few(r) => Begins(asOf[r].list, result[r].runs)

GInv ==
  /\ GitHubTyped /\ Listed
  /\ \A r \in Request : Remains(r) /\ Reading(r) /\ Counted(r)

-----------------------------------------------------------------------------
(* Lists and pages. *)

LEMMA Lists ==
  ASSUME NEW list \in Seq(Ids)
  PROVE  /\ Len(list) \in Nat /\ DOMAIN list = 1 .. Len(list)
         /\ \A i \in 1 .. Len(list) : list[i] \in Ids /\ list[i] \in Nat /\ list[i] > 0
<1>1. \A i \in Ids : i \in Nat /\ i > 0
  BY RunsAssumption
<1>2. /\ Len(list) \in Nat /\ DOMAIN list = 1 .. Len(list)
      /\ \A i \in 1 .. Len(list) : list[i] \in Ids
  OBVIOUS
<1>. QED BY <1>1, <1>2

\* A page is a part of the list, from where the pages before it end.
LEMMA PageOf ==
  ASSUME NEW list \in Seq(Ids), NEW n \in Nat \ {0}
  PROVE  LET k == (n - 1) * PerPage
             page == Page(list, n)
         IN  /\ page \in Seq(Ids) /\ k \in Nat
             /\ Len(page) <= PerPage
             /\ \A i \in DOMAIN page : k + i \in DOMAIN list /\ page[i] = list[k + i]
<1>. DEFINE k == (n - 1) * PerPage
            last == IF n * PerPage < Len(list) THEN n * PerPage ELSE Len(list)
<1>1. PerPage \in Nat \ {0}
  BY RunsAssumption
<1>2. k \in Nat /\ n * PerPage = k + PerPage
  <2>1. \A x \in Nat : x * PerPage \in Nat /\ (x + 1) * PerPage = x * PerPage + PerPage
    BY <1>1
  <2>2. n - 1 \in Nat /\ n = (n - 1) + 1
    OBVIOUS
  <2>. QED BY <2>1, <2>2
<1>. HIDE DEF k
<1>3. Len(list) \in Nat /\ DOMAIN list = 1 .. Len(list) /\ \A i \in DOMAIN list : list[i] \in Ids
  OBVIOUS
<1>4. last \in Nat /\ last <= k + PerPage /\ last <= Len(list)
  BY <1>1, <1>2, <1>3
<1>. HIDE DEF last
<1>5. \A i \in k + 1 .. last : list[i] \in Ids
  BY <1>2, <1>3, <1>4
<1>6. Page(list, n) = SubSeq(list, k + 1, last)
  BY DEF Page, k, last
<1>7. /\ SubSeq(list, k + 1, last) \in Seq(Ids)
      /\ Len(SubSeq(list, k + 1, last)) = IF k + 1 <= last THEN last - (k + 1) + 1 ELSE 0
      /\ \A i \in 1 .. last - (k + 1) + 1 : SubSeq(list, k + 1, last)[i] = list[k + 1 + i - 1]
  <2>1. k + 1 \in Int /\ last \in Int
    BY <1>2, <1>4
  <2>. QED BY <1>5, <2>1, SubSeqProperties
<1>8. Page(list, n) \in Seq(Ids) /\ Len(Page(list, n)) <= PerPage
  BY <1>1, <1>2, <1>4, <1>6, <1>7
<1>9. ASSUME NEW i \in DOMAIN Page(list, n)
      PROVE  k + i \in DOMAIN list /\ Page(list, n)[i] = list[k + i]
  <2>1. i \in 1 .. last - (k + 1) + 1 /\ k + i <= last
    BY <1>2, <1>4, <1>6, <1>7
  <2>2. k + 1 + i - 1 = k + i
    BY <1>2, <2>1
  <2>. QED BY <1>2, <1>3, <1>4, <1>6, <1>7, <2>1, <2>2
<1>. QED BY <1>2, <1>8, <1>9 DEF k

\* A sequence without its ith element.
LEMMA Without ==
  ASSUME NEW S, NEW list \in Seq(S), NEW i \in DOMAIN list
  PROVE  /\ RemoveAt(list, i) \in Seq(S) /\ Len(RemoveAt(list, i)) = Len(list) - 1
         /\ \A j \in 1 .. Len(list) - 1 :
              RemoveAt(list, i)[j] = IF j < i THEN list[j] ELSE list[j + 1]
<1>. DEFINE a == SubSeq(list, 1, i - 1)
            b == SubSeq(list, i + 1, Len(list))
<1>1. Len(list) \in Nat /\ i \in 1 .. Len(list)
  OBVIOUS
<1>2. a \in Seq(S) /\ Len(a) = i - 1 /\ \A j \in 1 .. i - 1 : a[j] = list[j]
  BY <1>1
<1>3. b \in Seq(S) /\ Len(b) = Len(list) - i /\ \A j \in 1 .. Len(list) - i : b[j] = list[i + j]
  BY <1>1
<1>4. RemoveAt(list, i) = a \o b
  BY DEF RemoveAt
<1>. HIDE DEF a, b
<1>5. /\ a \o b \in Seq(S) /\ Len(a \o b) = Len(a) + Len(b)
      /\ \A j \in 1 .. Len(a) + Len(b) : (a \o b)[j] = IF j <= Len(a) THEN a[j] ELSE b[j - Len(a)]
  BY <1>2, <1>3, ConcatProperties
<1>6. Len(a) + Len(b) = Len(list) - 1
  BY <1>1, <1>2, <1>3
<1>7. ASSUME NEW j \in 1 .. Len(list) - 1
      PROVE  (a \o b)[j] = IF j < i THEN list[j] ELSE list[j + 1]
  <2>1. (a \o b)[j] = IF j <= i - 1 THEN a[j] ELSE b[j - (i - 1)]
    BY <1>2, <1>5, <1>6
  <2>2. CASE j < i
    <3>1. j \in 1 .. i - 1
      BY <1>1, <2>2
    <3>. QED BY <1>2, <2>1, <2>2, <3>1
  <2>3. CASE ~(j < i)
    <3>1. j - (i - 1) \in 1 .. Len(list) - i /\ i + (j - (i - 1)) = j + 1
      BY <1>1, <2>3
    <3>2. b[j - (i - 1)] = list[j + 1]
      BY <1>3, <3>1
    <3>. QED BY <1>1, <2>1, <2>3, <3>2
  <2>. QED BY <2>2, <2>3
<1>. QED BY <1>4, <1>5, <1>6, <1>7

-----------------------------------------------------------------------------
(* The upstream. *)

LEMMA NewRunKeeps ==
  ASSUME UpstreamTyped, Listed, NewRun
  PROVE  /\ UpstreamTyped' /\ Listed'
         /\ \A r \in Request : asOf[r] \in [list : Seq(Ids), removals : Nat] /\ Remains(r) => Remains(r)'
<1>. DEFINE len == Len(upstream)
            next == len + removals + 1
<1>1. /\ len \in Nat /\ removals \in Nat /\ DOMAIN upstream = 1 .. len
      /\ \A j \in 1 .. len : upstream[j] \in Nat
  BY Lists DEF UpstreamTyped
<1>2. /\ next \in Ids /\ upstream' = <<next>> \o upstream
      /\ removals' = removals /\ asOf' = asOf
  BY DEF NewRun
<1>3. /\ upstream' \in Seq(Ids) /\ Len(upstream') = len + 1 /\ DOMAIN upstream' = 1 .. len + 1
      /\ upstream'[1] = next /\ \A j \in 1 .. len : upstream'[j + 1] = upstream[j]
  <2>1. <<next>> \in Seq(Ids) /\ Len(<<next>>) = 1
    BY <1>2
  <2>2. /\ <<next>> \o upstream \in Seq(Ids) /\ Len(<<next>> \o upstream) = 1 + len
        /\ \A i \in 1 .. 1 + len :
             (<<next>> \o upstream)[i] = IF i <= 1 THEN <<next>>[i] ELSE upstream[i - 1]
    BY <2>1, ConcatProperties DEF UpstreamTyped
  <2>. QED BY <1>1, <1>2, <2>2
<1>. HIDE DEF len
<1>4. \A j \in 1 .. len + 1 : j = 1 \/ (j - 1 \in 1 .. len /\ upstream'[j] = upstream[j - 1])
  BY <1>1, <1>3
<1>5. Newest = len + removals /\ Newest' = len + 1 + removals
  BY <1>1, <1>2, <1>3 DEF Newest, len
<1>6. /\ \A j \in 1 .. len : upstream[j] + j <= len + removals + 1
      /\ \A i, j \in 1 .. len : i < j => upstream[j] < upstream[i]
  BY <1>1, <1>5 DEF Listed
<1>7. Listed'
  <2>1. SUFFICES ASSUME NEW j \in 1 .. len + 1
                 PROVE  /\ upstream'[j] + j <= len + 1 + removals + 1
                        /\ \A i \in 1 .. len + 1 : i < j => upstream'[j] < upstream'[i]
    BY <1>3, <1>5 DEF Listed
  <2>2. upstream'[j] + j <= len + 1 + removals + 1
    <3>1. CASE j = 1
      BY <1>1, <1>3, <3>1
    <3>2. CASE j # 1
      <4>1. j - 1 \in 1 .. len /\ upstream'[j] = upstream[j - 1]
        BY <1>4, <3>2
      <4>2. upstream[j - 1] + (j - 1) <= len + removals + 1 /\ upstream[j - 1] \in Nat
        BY <1>1, <1>6, <4>1
      <4>. QED BY <1>1, <4>1, <4>2
    <3>. QED BY <3>1, <3>2
  <2>3. ASSUME NEW i \in 1 .. len + 1, i < j PROVE upstream'[j] < upstream'[i]
    <3>1. j - 1 \in 1 .. len /\ upstream'[j] = upstream[j - 1]
      BY <1>1, <1>4, <2>3
    <3>2. CASE i = 1
      <4>1. upstream[j - 1] + (j - 1) <= len + removals + 1 /\ j - 1 >= 1
        BY <1>6, <3>1
      <4>. QED BY <1>1, <1>3, <3>1, <3>2, <4>1
    <3>3. CASE i # 1
      BY <1>1, <1>4, <1>6, <2>3, <3>1, <3>3
    <3>. QED BY <3>2, <3>3
  <2>. QED BY <2>2, <2>3
<1>8. ASSUME NEW r \in Request, asOf[r] \in [list : Seq(Ids), removals : Nat], Remains(r)
      PROVE  Remains(r)'
  <2>0. PICK list \in Seq(Ids), gone \in Nat : asOf[r].list = list /\ asOf[r].removals = gone
    BY <1>8
  <2>1. /\ Len(list) \in Nat /\ DOMAIN list = 1 .. Len(list)
        /\ \A i \in 1 .. Len(list) : list[i] \in Nat
    BY Lists
  <2>2. /\ gone <= removals /\ Len(list) + gone <= len + removals
        /\ \A i \in DOMAIN list : /\ list[i] <= Len(list) + gone
                                /\ \A j \in DOMAIN list : i < j => list[j] < list[i]
        /\ \A j \in 1 .. len : upstream[j] > Len(list) + gone \/ \E i \in DOMAIN list : list[i] = upstream[j]
        /\ \A j \in 1 .. len, i \in DOMAIN list : upstream[j] = list[i] => len - j <= Len(list) - i
        /\ \A j, m \in 1 .. len, i, n \in DOMAIN list :
             j <= m /\ upstream[j] = list[i] /\ upstream[m] = list[n] => m - j <= n - i
    BY <1>1, <1>5, <1>8, <2>0 DEF Remains, len
  <2>. HIDE DEF next
  <2>3. /\ removals' = removals /\ asOf' = asOf
        /\ Len(upstream') = len + 1 /\ DOMAIN upstream' = 1 .. len + 1
    BY <1>2, <1>3
  <2>9. next > Len(list) + gone
    BY <1>1, <2>1, <2>2 DEF next
  <2>4. ASSUME NEW j \in 1 .. len + 1
        PROVE  upstream'[j] > Len(list) + gone \/ \E i \in DOMAIN list : list[i] = upstream'[j]
    BY <1>3, <1>4, <2>2, <2>9
  <2>5. ASSUME NEW j \in 1 .. len + 1, NEW i \in DOMAIN list, upstream'[j] = list[i]
        PROVE  j - 1 \in 1 .. len /\ upstream[j - 1] = list[i]
    <3>1. upstream'[j] <= Len(list) + gone
      BY <2>2, <2>5
    <3>2. j # 1
      BY <1>1, <1>3, <2>1, <2>9, <3>1 DEF next
    <3>. QED BY <1>4, <2>5, <3>2
  <2>6. ASSUME NEW j \in 1 .. len + 1, NEW i \in DOMAIN list, upstream'[j] = list[i]
        PROVE  len + 1 - j <= Len(list) - i
    <3>1. j - 1 \in 1 .. len /\ upstream[j - 1] = list[i]
      BY <2>5, <2>6
    <3>2. len - (j - 1) <= Len(list) - i
      BY <2>2, <3>1
    <3>. QED BY <1>1, <2>1, <3>2
  <2>7. ASSUME NEW j \in 1 .. len + 1, NEW m \in 1 .. len + 1, NEW i \in DOMAIN list,
               NEW n \in DOMAIN list, j <= m, upstream'[j] = list[i], upstream'[m] = list[n]
        PROVE  m - j <= n - i
    <3>1. /\ j - 1 \in 1 .. len /\ upstream[j - 1] = list[i]
          /\ m - 1 \in 1 .. len /\ upstream[m - 1] = list[n]
      BY <2>5, <2>7
    <3>2. j - 1 <= m - 1
      BY <1>1, <2>7
    <3>3. (m - 1) - (j - 1) <= n - i
      BY <2>2, <3>1, <3>2
    <3>. QED BY <1>1, <2>1, <3>3
  <2>8. /\ gone <= removals' /\ Len(list) + gone <= Newest'
        /\ \A i \in DOMAIN list : /\ list[i] <= Len(list) + gone
                                /\ \A j \in DOMAIN list : i < j => list[j] < list[i]
    BY <1>1, <1>5, <2>1, <2>2, <2>3
  <2>10. \A j \in DOMAIN upstream' :
           upstream'[j] > Len(list) + gone \/ \E i \in DOMAIN list : list[i] = upstream'[j]
    BY <2>3, <2>4
  <2>11. \A j \in DOMAIN upstream', i \in DOMAIN list :
           upstream'[j] = list[i] => Len(upstream') - j <= Len(list) - i
    <3>1. SUFFICES ASSUME NEW j \in DOMAIN upstream', NEW i \in DOMAIN list, upstream'[j] = list[i]
                   PROVE  Len(upstream') - j <= Len(list) - i
      OBVIOUS
    <3>2. j \in 1 .. len + 1
      BY <2>3
    <3>3. len + 1 - j <= Len(list) - i
      BY <2>6, <3>1, <3>2
    <3>4. len + 1 \in Nat /\ len \in Nat /\ j \in Nat /\ i \in Nat /\ Len(list) \in Nat
      BY <1>1, <2>1, <3>2
    <3>. QED BY <2>3, <3>3, <3>4
  <2>12. \A j, m \in DOMAIN upstream', i, n \in DOMAIN list :
           j <= m /\ upstream'[j] = list[i] /\ upstream'[m] = list[n] => m - j <= n - i
    BY <2>3, <2>7
  <2>. QED BY <2>0, <2>3, <2>8, <2>10, <2>11, <2>12 DEF Remains
<1>. QED BY <1>2, <1>3, <1>7, <1>8 DEF UpstreamTyped

LEMMA RemoveRunKeeps ==
  ASSUME UpstreamTyped, Listed, RemoveRun
  PROVE  /\ UpstreamTyped' /\ Listed'
         /\ \A r \in Request : asOf[r] \in [list : Seq(Ids), removals : Nat] /\ Remains(r) => Remains(r)'
<1>. DEFINE len == Len(upstream)
<1>1. /\ len \in Nat /\ removals \in Nat /\ DOMAIN upstream = 1 .. len
      /\ \A j \in 1 .. len : upstream[j] \in Nat
  BY Lists DEF UpstreamTyped
<1>2. PICK k \in 1 .. len : upstream' = RemoveAt(upstream, k)
  BY <1>1 DEF RemoveRun
<1>3. removals' = removals + 1 /\ asOf' = asOf
  BY DEF RemoveRun
<1>4. /\ upstream' \in Seq(Ids) /\ Len(upstream') = len - 1
      /\ \A j \in 1 .. len - 1 : upstream'[j] = IF j < k THEN upstream[j] ELSE upstream[j + 1]
  BY <1>1, <1>2, Without DEF UpstreamTyped
<1>5. DOMAIN upstream' = 1 .. len - 1 /\ len >= 1
  BY <1>1, <1>2, <1>4
<1>. DEFINE was(j) == IF j < k THEN j ELSE j + 1
<1>6. \A j \in 1 .. len - 1 : was(j) \in 1 .. len /\ upstream'[j] = upstream[was(j)]
  BY <1>1, <1>4
<1>7. \A i, j \in 1 .. len - 1 :
        /\ j <= was(j) /\ was(j) <= j + 1
        /\ i < j => was(i) < was(j)
        /\ i <= j => was(i) <= was(j) /\ j - i <= was(j) - was(i)
  BY <1>1
<1>. HIDE DEF was, len
<1>8. Newest = len + removals /\ Newest' = len + removals
  BY <1>1, <1>3, <1>4, <1>5 DEF Newest, len
<1>9. /\ \A j \in 1 .. len : upstream[j] + j <= len + removals + 1
      /\ \A i, j \in 1 .. len : i < j => upstream[j] < upstream[i]
  BY <1>1, <1>8 DEF Listed
<1>10. Listed'
  <2>1. SUFFICES ASSUME NEW j \in 1 .. len - 1
                 PROVE  /\ upstream'[j] + j <= len + removals + 1
                        /\ \A i \in 1 .. len - 1 : i < j => upstream'[j] < upstream'[i]
    BY <1>5, <1>8 DEF Listed
  <2>2. was(j) \in 1 .. len /\ upstream'[j] = upstream[was(j)] /\ j <= was(j)
    BY <1>6, <1>7
  <2>3. upstream[was(j)] + was(j) <= len + removals + 1 /\ upstream[was(j)] \in Nat
    BY <1>1, <1>9, <2>2
  <2>4. upstream'[j] + j <= len + removals + 1
    BY <1>1, <2>2, <2>3
  <2>5. ASSUME NEW i \in 1 .. len - 1, i < j PROVE upstream'[j] < upstream'[i]
    BY <1>6, <1>7, <1>9, <2>2, <2>5
  <2>. QED BY <2>4, <2>5
<1>11. ASSUME NEW r \in Request, asOf[r] \in [list : Seq(Ids), removals : Nat], Remains(r)
       PROVE  Remains(r)'
  <2>0. PICK list \in Seq(Ids), gone \in Nat : asOf[r].list = list /\ asOf[r].removals = gone
    BY <1>11
  <2>1. /\ Len(list) \in Nat /\ DOMAIN list = 1 .. Len(list)
        /\ \A i \in 1 .. Len(list) : list[i] \in Nat
    BY Lists
  <2>2. /\ gone <= removals /\ Len(list) + gone <= len + removals
        /\ \A i \in DOMAIN list : /\ list[i] <= Len(list) + gone
                                /\ \A j \in DOMAIN list : i < j => list[j] < list[i]
        /\ \A j \in 1 .. len : upstream[j] > Len(list) + gone \/ \E i \in DOMAIN list : list[i] = upstream[j]
        /\ \A j \in 1 .. len, i \in DOMAIN list : upstream[j] = list[i] => len - j <= Len(list) - i
        /\ \A j, m \in 1 .. len, i, n \in DOMAIN list :
             j <= m /\ upstream[j] = list[i] /\ upstream[m] = list[n] => m - j <= n - i
    BY <1>1, <1>8, <1>11, <2>0 DEF Remains, len
  <2>. SUFFICES
         /\ gone <= removals + 1 /\ Len(list) + gone <= len + removals
         /\ \A i \in DOMAIN list : /\ list[i] <= Len(list) + gone
                                 /\ \A j \in DOMAIN list : i < j => list[j] < list[i]
         /\ \A j \in 1 .. len - 1 :
              upstream'[j] > Len(list) + gone \/ \E i \in DOMAIN list : list[i] = upstream'[j]
         /\ \A j \in 1 .. len - 1, i \in DOMAIN list :
              upstream'[j] = list[i] => len - 1 - j <= Len(list) - i
         /\ \A j, m \in 1 .. len - 1, i, n \in DOMAIN list :
              j <= m /\ upstream'[j] = list[i] /\ upstream'[m] = list[n] => m - j <= n - i
    BY <1>3, <1>4, <1>5, <1>8, <2>0 DEF Remains
  <2>3. ASSUME NEW j \in 1 .. len - 1
        PROVE  upstream'[j] > Len(list) + gone \/ \E i \in DOMAIN list : list[i] = upstream'[j]
    BY <1>6, <2>2
  <2>4. ASSUME NEW j \in 1 .. len - 1, NEW i \in DOMAIN list, upstream'[j] = list[i]
        PROVE  len - 1 - j <= Len(list) - i
    <3>1. was(j) \in 1 .. len /\ upstream[was(j)] = list[i] /\ was(j) <= j + 1
      BY <1>6, <1>7, <2>4
    <3>2. len - was(j) <= Len(list) - i
      BY <2>2, <3>1
    <3>. QED BY <1>1, <2>1, <3>1, <3>2
  <2>5. ASSUME NEW j \in 1 .. len - 1, NEW m \in 1 .. len - 1, NEW i \in DOMAIN list,
               NEW n \in DOMAIN list, j <= m, upstream'[j] = list[i], upstream'[m] = list[n]
        PROVE  m - j <= n - i
    <3>1. /\ was(j) \in 1 .. len /\ upstream[was(j)] = list[i]
          /\ was(m) \in 1 .. len /\ upstream[was(m)] = list[n]
          /\ was(j) <= was(m) /\ m - j <= was(m) - was(j)
      BY <1>6, <1>7, <2>5
    <3>2. was(m) - was(j) <= n - i
      BY <2>2, <3>1
    <3>. QED BY <1>1, <2>1, <3>1, <3>2
  <2>6. gone <= removals + 1
    BY <1>1, <2>2
  <2>. QED BY <2>2, <2>3, <2>4, <2>5, <2>6
<1>. QED BY <1>1, <1>3, <1>4, <1>10, <1>11 DEF UpstreamTyped

-----------------------------------------------------------------------------
(* A page. *)

\* After the first page: as many runs as then, none seen twice and fewer removed than a page
\* holds leave every run of the next page where it was.
LEMMA NextPage ==
  ASSUME UpstreamTyped, Listed, NEW r \in Request, Remains(r),
         NEW list \in Seq(Ids), NEW gone \in Nat,
         asOf[r].list = list, asOf[r].removals = gone, removals - gone < PerPage,
         NEW k \in Nat, k >= PerPage, k <= Len(list), Len(upstream) = Len(list),
         NEW page \in Seq(Ids),
         \A i \in DOMAIN page : k + i \in DOMAIN upstream /\ page[i] = upstream[k + i],
         \A i \in DOMAIN page : \A j \in 1 .. k : page[i] # list[j]
  PROVE  \A i \in DOMAIN page : k + i \in DOMAIN list /\ page[i] = list[k + i]
<1>. DEFINE len == Len(list)
<1>1. /\ len \in Nat /\ removals \in Nat /\ DOMAIN list = 1 .. len /\ DOMAIN upstream = 1 .. len
      /\ \A j \in 1 .. len : upstream[j] \in Nat /\ list[j] \in Nat
      /\ PerPage \in Nat \ {0}
      /\ Len(page) \in Nat /\ DOMAIN page = 1 .. Len(page)
  BY Lists, RunsAssumption DEF UpstreamTyped
<1>2. /\ \A j \in 1 .. len : upstream[j] > len + gone \/ \E i \in 1 .. len : list[i] = upstream[j]
      /\ \A j, i \in 1 .. len : upstream[j] = list[i] => len - j <= len - i
      /\ \A j, m, i, n \in 1 .. len :
           j <= m /\ upstream[j] = list[i] /\ upstream[m] = list[n] => m - j <= n - i
  BY <1>1 DEF Remains
<1>3. /\ \A j \in 1 .. len : upstream[j] + j <= len + removals + 1
      /\ \A i, j \in 1 .. len : i < j => upstream[j] < upstream[i]
  BY <1>1 DEF Listed, Newest
<1>. HIDE DEF len
<1>4. ASSUME NEW i \in DOMAIN page
      PROVE  \E n \in 1 .. len : list[n] = upstream[k + i] /\ n >= k + 1 /\ n <= k + i
  <2>1. k + i \in 1 .. len /\ page[i] = upstream[k + i] /\ i >= 1
    BY <1>1
  <2>2. upstream[k + i] + (k + i) <= len + removals + 1 /\ upstream[k + i] \in Nat
    BY <1>1, <1>3, <2>1
  <2>3. ~(upstream[k + i] > len + gone)
    BY <1>1, <2>1, <2>2
  <2>4. PICK n \in 1 .. len : list[n] = upstream[k + i]
    BY <1>2, <2>1, <2>3
  <2>5. n >= k + 1
    BY <1>1, <2>1, <2>4
  <2>6. len - (k + i) <= len - n
    BY <1>2, <2>1, <2>4
  <2>7. n <= k + i
    BY <1>1, <2>1, <2>6
  <2>. QED BY <2>4, <2>5, <2>7
<1>5. ASSUME NEW i \in DOMAIN page
      PROVE  k + i \in DOMAIN list /\ page[i] = list[k + i]
  <2>1. 1 \in DOMAIN page /\ i >= 1
    BY <1>1
  <2>2. PICK f \in 1 .. len : list[f] = upstream[k + 1] /\ f >= k + 1
    BY <1>4, <2>1
  <2>3. PICK n \in 1 .. len : list[n] = upstream[k + i] /\ n <= k + i
    BY <1>4
  <2>4. k + 1 \in 1 .. len /\ k + i \in 1 .. len /\ k + 1 <= k + i
    BY <1>1, <2>1
  <2>5. (k + i) - (k + 1) <= n - f
    BY <1>2, <2>2, <2>3, <2>4
  <2>6. n \in Int /\ f \in Int /\ i \in Int /\ k \in Int /\ f >= k + 1 /\ n <= k + i
    BY <1>1, <2>2, <2>3
  <2>7. n = k + i
    BY <2>5, <2>6
  <2>. QED BY <1>1, <2>3, <2>4, <2>7
<1>. QED BY <1>5

-----------------------------------------------------------------------------
(* Types. *)

LEMMA Results ==
  ASSUME NEW f \in FetchType, NEW state \in {"OBSERVED", "OBSERVED_PARTIAL", "UNAVAILABLE", "NOT_MODIFIED"},
         NEW complete \in BOOLEAN
  PROVE  /\ Result(state, f, complete) \in Outcome
         /\ Result(state, f, complete).state = state
         /\ Unavailable(f) \in Outcome /\ Unavailable(f).state = "UNAVAILABLE"
<1>1. <<>> \in Seq(RunType) /\ NoETag \in ETags
  BY DEF ETags
<1>2. [f EXCEPT !.etag = NoETag] \in FetchType
  BY <1>1 DEF FetchType
<1>. QED BY <1>1, <1>2 DEF Result, Unavailable, Outcome, FetchType

LEMMA NothingYet == NewFetch \in FetchType /\ NoResult \in Outcome /\ NoResult.state = "NONE"
<1>1. <<>> \in Seq(RunType) /\ NoETag \in ETags
  BY DEF ETags
<1>. QED BY <1>1 DEF NewFetch, NoResult, Result, FetchType, Outcome

\* A page of valid runs is read onto what was read.
LEMMA Extends ==
  ASSUME UpstreamTyped, NEW f \in FetchType,
         PageConsistent(f, Page(upstream, f.pages + 1), Len(upstream))
  PROVE  LET page == Page(upstream, f.pages + 1)
             g == Extended(f, page, Len(upstream), ETag(upstream))
         IN  /\ g \in FetchType /\ g.pages = f.pages + 1 /\ g.count = Len(upstream)
             /\ f.count = -1 \/ f.count = Len(upstream)
             /\ Len(g.runs) = Len(f.runs) + Len(page) /\ Len(g.runs) <= Len(upstream)
             /\ \A i \in 1 .. Len(f.runs) : g.runs[i] = f.runs[i]
             /\ \A i \in 1 .. Len(page) : g.runs[Len(f.runs) + i] = Run(page[i])
<1>. DEFINE page == Page(upstream, f.pages + 1)
            added == [i \in DOMAIN page |-> Run(page[i])]
            g == Extended(f, page, Len(upstream), ETag(upstream))
<1>1. f.pages \in Nat /\ f.runs \in Seq(RunType) /\ f.etag \in ETags
  BY DEF FetchType
<1>2. page \in Seq(Ids)
  BY <1>1, PageOf DEF UpstreamTyped
<1>3. /\ f.count \in {-1, Len(upstream)} /\ Len(f.runs) + Len(page) <= Len(upstream)
      /\ \A i \in DOMAIN page : ValidRun(Item[page[i]])
  BY DEF PageConsistent
<1>. HIDE DEF page
<1>4. Len(page) \in Nat /\ DOMAIN page = 1 .. Len(page) /\ \A i \in 1 .. Len(page) : page[i] \in Ids
  BY <1>2
<1>5. \A i \in DOMAIN page : Run(page[i]) \in RunType
  BY <1>3, <1>4 DEF RunType
<1>6. added \in Seq(RunType) /\ Len(added) = Len(page) /\ \A i \in 1 .. Len(page) : added[i] = Run(page[i])
  BY <1>4, <1>5
<1>. HIDE DEF added
<1>7. /\ f.runs \o added \in Seq(RunType)
      /\ Len(f.runs \o added) = Len(f.runs) + Len(added)
      /\ \A i \in 1 .. Len(f.runs) + Len(added) :
           (f.runs \o added)[i] = IF i <= Len(f.runs) THEN f.runs[i] ELSE added[i - Len(f.runs)]
  BY <1>1, <1>6, ConcatProperties
<1>8. Len(f.runs) \in Nat /\ Len(upstream) \in Nat
  BY <1>1, Lists DEF UpstreamTyped
<1>9. ETag(upstream) \in ETags
  BY DEF ETags, UpstreamTyped
<1>10. /\ g.pages = f.pages + 1 /\ g.count = Len(upstream) /\ g.runs = f.runs \o added
       /\ g.etag \in ETags
       /\ g = [pages |-> g.pages, count |-> g.count, runs |-> g.runs, etag |-> g.etag]
  BY <1>1, <1>9 DEF Extended, added
<1>. HIDE DEF g
<1>11. g \in FetchType
  <2>1. g.pages \in Nat /\ g.count \in Int /\ g.runs \in Seq(RunType) /\ g.etag \in ETags
    BY <1>1, <1>7, <1>8, <1>10
  <2>. QED BY <1>10, <2>1 DEF FetchType
<1>12. \A i \in 1 .. Len(f.runs) : g.runs[i] = f.runs[i]
  BY <1>4, <1>6, <1>7, <1>8, <1>10
<1>13. ASSUME NEW i \in 1 .. Len(page) PROVE g.runs[Len(f.runs) + i] = Run(page[i])
  <2>1. /\ Len(f.runs) + i \in 1 .. Len(f.runs) + Len(added) /\ ~(Len(f.runs) + i <= Len(f.runs))
        /\ (Len(f.runs) + i) - Len(f.runs) = i
    BY <1>4, <1>6, <1>8
  <2>. QED BY <1>6, <1>7, <1>10, <2>1
<1>. QED BY <1>3, <1>4, <1>6, <1>7, <1>8, <1>10, <1>11, <1>12, <1>13 DEF g, page

-----------------------------------------------------------------------------
(* The steps of a fetch. *)

\* A list compares with itself.
LEMMA Fresh ==
  ASSUME UpstreamTyped, Listed, NEW r \in Request, UNCHANGED upstreamVars,
         asOf'[r] = [list |-> upstream, removals |-> removals]
  PROVE  Remains(r)' /\ (Few(r))'
<1>1. /\ Len(upstream) \in Nat /\ removals \in Nat /\ DOMAIN upstream = 1 .. Len(upstream)
      /\ \A j \in 1 .. Len(upstream) : upstream[j] \in Nat /\ upstream[j] > 0
      /\ PerPage \in Nat \ {0}
  BY Lists, RunsAssumption DEF UpstreamTyped
<1>2. /\ upstream' = upstream /\ removals' = removals
      /\ asOf'[r].list = upstream /\ asOf'[r].removals = removals
      /\ Newest' = Len(upstream) + removals
  BY DEF upstreamVars, Newest
<1>3. \A j \in DOMAIN upstream : /\ upstream[j] + j <= Len(upstream) + removals + 1
                                 /\ \A i \in DOMAIN upstream : i < j => upstream[j] < upstream[i]
  BY DEF Listed, Newest
<1>4. \A i \in DOMAIN upstream : upstream[i] <= Len(upstream) + removals
  BY <1>1, <1>3
<1>5. \A i, j \in DOMAIN upstream : upstream[i] = upstream[j] => i = j
  <2>1. \A i, j \in DOMAIN upstream : i < j \/ j < i \/ i = j
    BY <1>1
  <2>. QED BY <1>1, <1>3, <2>1
<1>6. \A j, m \in DOMAIN upstream, i, n \in DOMAIN upstream :
        j <= m /\ upstream[j] = upstream[i] /\ upstream[m] = upstream[n] => m - j <= n - i
  <2>1. \A i, j \in DOMAIN upstream : j - i <= j - i /\ Len(upstream) - j <= Len(upstream) - j
    BY <1>1
  <2>. QED BY <1>5, <2>1
<1>7. \A j \in DOMAIN upstream, i \in DOMAIN upstream :
        upstream[j] = upstream[i] => Len(upstream) - j <= Len(upstream) - i
  <2>1. \A j \in DOMAIN upstream : Len(upstream) - j <= Len(upstream) - j
    BY <1>1
  <2>. QED BY <1>5, <2>1
<1>8. removals <= removals /\ Len(upstream) + removals <= Len(upstream) + removals
  BY <1>1
<1>9. Remains(r)'
  BY <1>2, <1>3, <1>4, <1>6, <1>7, <1>8 DEF Remains
<1>10. (Few(r))'
  BY <1>1, <1>2 DEF Few
<1>. QED BY <1>9, <1>10

\* What the first page of a fetch fixes.
LEMMA Remembers ==
  ASSUME GInv, NEW r \in Request, UNCHANGED upstreamVars, Remember(r), phase[r] = "fetching"
  PROVE  /\ asOf' \in [Request -> [list : Seq(Ids), removals : Nat]]
         /\ \A q \in Request : q # r => asOf'[q] = asOf[q]
         /\ Remains(r)'
         /\ fetch[r].pages = 0 =>
              fetch[r] = NewFetch /\ asOf'[r].list = upstream /\ asOf'[r].removals = removals
         /\ fetch[r].pages # 0 => fetch[r].pages > 0 /\ asOf'[r] = asOf[r]
<1>1. /\ asOf \in [Request -> [list : Seq(Ids), removals : Nat]] /\ UpstreamTyped /\ Listed
      /\ fetch[r] \in FetchType /\ Remains(r) /\ Reading(r)
  BY DEF GInv, GitHubTyped
<1>2. fetch[r].pages \in Nat
  BY <1>1 DEF FetchType
<1>3. CASE fetch[r].pages = 0
  <2>1. asOf' = [asOf EXCEPT ![r] = [list |-> upstream, removals |-> removals]]
    BY <1>3 DEF Remember
  <2>2. [list |-> upstream, removals |-> removals] \in [list : Seq(Ids), removals : Nat]
    BY <1>1 DEF UpstreamTyped
  <2>3. asOf'[r] = [list |-> upstream, removals |-> removals]
    BY <1>1, <2>1
  <2>. QED BY <1>1, <1>3, <2>1, <2>2, <2>3, Fresh DEF Reading
<1>4. CASE fetch[r].pages # 0
  <2>1. asOf' = asOf
    BY <1>4 DEF Remember
  <2>2. Remains(r)'
    BY <1>1, <2>1 DEF Remains, Newest, upstreamVars
  <2>. QED BY <1>1, <1>2, <1>4, <2>1, <2>2
<1>. QED BY <1>3, <1>4

\* A request that does not fetch keeps what it has, whatever the upstream does.
LEMMA OthersKeepLists ==
  ASSUME GInv, NEW q \in Request, removals' \in Nat, removals <= removals',
         asOf'[q] = asOf[q], fetch'[q] = fetch[q], result'[q] = result[q],
         phase'[q] = phase[q] \/ (phase[q] \notin {"new", "fetching"} /\ phase'[q] \notin {"new", "fetching"})
  PROVE  Reading(q)' /\ Counted(q)'
<1>1. /\ Reading(q) /\ Counted(q) /\ removals \in Nat /\ asOf[q].removals \in Nat
      /\ PerPage \in Nat
  BY RunsAssumption DEF GInv, GitHubTyped, UpstreamTyped
<1>2. (Few(q))' => Few(q)
  BY <1>1 DEF Few
<1>3. Reading(q)'
  BY <1>1, <1>2 DEF Reading
<1>4. Counted(q)'
  BY <1>1, <1>2 DEF Counted
<1>. QED BY <1>3, <1>4

\* All of the invariant but the request that moves.
LEMMA OneFetches ==
  ASSUME GInv, NEW r \in Request, UNCHANGED <<upstreamVars, key, store, current, answer>>,
         phase' \in [Request -> Stages], fetch' \in [Request -> FetchType],
         result' \in [Request -> Outcome], asked' \in [Request -> ETags],
         asOf' \in [Request -> [list : Seq(Ids), removals : Nat]],
         \A q \in Request : q # r => /\ phase'[q] = phase[q] /\ fetch'[q] = fetch[q]
                                   /\ result'[q] = result[q] /\ asOf'[q] = asOf[q],
         Remains(r)', Reading(r)', Counted(r)'
  PROVE  GInv'
<1>1. GitHubTyped'
  BY DEF GInv, GitHubTyped, UpstreamTyped, upstreamVars, store
<1>2. Listed'
  BY DEF GInv, Listed, Newest, upstreamVars
<1>3. ASSUME NEW q \in Request, q # r PROVE Remains(q)' /\ Reading(q)' /\ Counted(q)'
  <2>1. upstream' = upstream /\ removals' = removals /\ removals \in Nat
    BY DEF upstreamVars, GInv, GitHubTyped, UpstreamTyped
  <2>2. asOf'[q] = asOf[q] /\ Remains(q)
    BY <1>3 DEF GInv
  <2>3. Remains(q)'
    BY <2>1, <2>2 DEF Remains, Newest
  <2>. QED BY <1>3, <2>1, <2>3, OthersKeepLists
<1>. QED BY <1>1, <1>2, <1>3 DEF GInv

LEMMA BeginKeeps ==
  ASSUME GInv, NEW r \in Request, Begin(r)
  PROVE  GInv'
<1>1. /\ GitHubTyped /\ Remains(r) /\ Reading(r) /\ Counted(r)
      /\ phase[r] = "new" /\ phase' = [phase EXCEPT ![r] = "fetching"]
      /\ UNCHANGED <<upstreamVars, key, fetch, result, asOf, store, current, answer>>
  BY DEF GInv, Begin, Moves
<1>2. asked' \in [Request -> ETags]
  BY <1>1 DEF Begin, GitHubTyped, ETags
<1>3. phase' \in [Request -> Stages] /\ phase'[r] = "fetching" /\ \A q \in Request : q # r => phase'[q] = phase[q]
  BY <1>1 DEF GitHubTyped, Stages
<1>4. Remains(r)'
  BY <1>1 DEF Remains, Newest, upstreamVars
<1>5. Reading(r)'
  BY <1>1, <1>3 DEF Reading, NewFetch
<1>6. Counted(r)'
  BY <1>1, <1>3 DEF Counted, Few, upstreamVars
<1>. QED BY <1>1, <1>2, <1>3, <1>4, <1>5, <1>6, OneFetches DEF GitHubTyped

\* A fetch that ends without a complete list.
LEMMA FetchEnds ==
  ASSUME GInv, NEW r \in Request, UNCHANGED <<upstreamVars, key, asked, store, current, answer>>,
         Remember(r), NEW outcome \in Outcome, Fetched(r, outcome), outcome.state # "NONE",
         outcome.state = "OBSERVED" =>
           /\ Len(outcome.runs) = Len(asOf'[r].list)
           /\ (Few(r))' => Begins(asOf'[r].list, outcome.runs)
  PROVE  GInv'
<1>1. /\ phase[r] = "fetching" /\ phase' = [phase EXCEPT ![r] = "fetched"]
      /\ fetch' = [fetch EXCEPT ![r] = NewFetch] /\ result' = [result EXCEPT ![r] = outcome]
  BY DEF Fetched, Moves
<1>2. /\ phase' \in [Request -> Stages] /\ fetch' \in [Request -> FetchType]
      /\ result' \in [Request -> Outcome] /\ asked' \in [Request -> ETags]
      /\ phase'[r] = "fetched" /\ result'[r] = outcome
      /\ \A q \in Request : q # r => /\ phase'[q] = phase[q] /\ fetch'[q] = fetch[q]
                                    /\ result'[q] = result[q]
  BY <1>1, NothingYet DEF GInv, GitHubTyped, Stages
<1>3. /\ asOf' \in [Request -> [list : Seq(Ids), removals : Nat]] /\ Remains(r)'
      /\ \A q \in Request : q # r => asOf'[q] = asOf[q]
  BY <1>1, Remembers
<1>4. Reading(r)'
  BY <1>2 DEF Reading
<1>5. Counted(r)'
  BY <1>2 DEF Counted
<1>. QED BY <1>2, <1>3, <1>4, <1>5, OneFetches

LEMMA NoListKeeps ==
  ASSUME GInv, NEW r \in Request, NotModified(r) \/ PageFails(r)
  PROVE  GInv'
<1>1. /\ UNCHANGED <<upstreamVars, key, asked, store, current, answer>> /\ Remember(r)
      /\ fetch[r] \in FetchType /\ asked[r] \in ETags
  BY DEF NotModified, PageFails, GInv, GitHubTyped
<1>2. CASE NotModified(r)
  <2>. DEFINE f == [fetch[r] EXCEPT !.pages = 1, !.etag = asked[r]]
  <2>1. f \in FetchType
    BY <1>1 DEF FetchType
  <2>. HIDE DEF f
  <2>2. Fetched(r, Result("NOT_MODIFIED", f, TRUE))
    BY <1>2 DEF NotModified, f
  <2>. QED BY <1>1, <2>1, <2>2, Results, FetchEnds
<1>3. CASE PageFails(r)
  <2>1. PICK n \in {0, 1} : Fetched(r, Unavailable([fetch[r] EXCEPT !.pages = @ + n]))
    BY <1>3 DEF PageFails
  <2>2. [fetch[r] EXCEPT !.pages = @ + n] \in FetchType
    BY <1>1 DEF FetchType
  <2>. QED BY <1>1, <2>1, <2>2, Results, FetchEnds
<1>. QED BY <1>2, <1>3

\* What a page adds to the runs read: the next ones of the list of the first page.
LEMMA PageAdds ==
  ASSUME GInv, NEW r \in Request, phase[r] = "fetching", UNCHANGED upstreamVars, Remember(r),
         NEW page, page = Page(upstream, fetch[r].pages + 1),
         NEW g, g = Extended(fetch[r], page, Len(upstream), ETag(upstream)),
         PageConsistent(fetch[r], page, Len(upstream))
  PROVE  /\ g \in FetchType /\ g.pages = fetch[r].pages + 1
         /\ g.count = Len(asOf'[r].list) /\ Len(g.runs) = Len(fetch[r].runs) + Len(page)
         /\ Len(fetch[r].runs) = fetch[r].pages * PerPage
         /\ (Few(r))' => Begins(asOf'[r].list, g.runs)
<1>. DEFINE f == fetch[r]
            k == Len(f.runs)
<1>1. /\ f \in FetchType /\ UpstreamTyped /\ Listed /\ Remains(r) /\ Reading(r)
      /\ upstream \in Seq(Ids) /\ asOf \in [Request -> [list : Seq(Ids), removals : Nat]]
      /\ removals' = removals /\ upstream' = upstream
  BY DEF GInv, GitHubTyped, UpstreamTyped, upstreamVars
<1>2. /\ f.pages \in Nat /\ f.runs \in Seq(RunType) /\ k \in Nat /\ DOMAIN f.runs = 1 .. k
      /\ PerPage \in Nat \ {0} /\ Len(upstream) \in Nat /\ DOMAIN upstream = 1 .. Len(upstream)
  BY <1>1, Lists, RunsAssumption DEF FetchType
<1>3. /\ page \in Seq(Ids) /\ Len(page) \in Nat /\ DOMAIN page = 1 .. Len(page)
      /\ \A i \in DOMAIN page : /\ f.pages * PerPage + i \in DOMAIN upstream
                                /\ page[i] = upstream[f.pages * PerPage + i]
  <2>1. f.pages + 1 \in Nat \ {0} /\ (f.pages + 1) - 1 = f.pages
    BY <1>2
  <2>. QED BY <1>1, <2>1, PageOf, Lists
<1>4. /\ g \in FetchType /\ g.pages = f.pages + 1 /\ g.count = Len(upstream)
      /\ f.count = -1 \/ f.count = Len(upstream)
      /\ Len(g.runs) = k + Len(page) /\ Len(g.runs) <= Len(upstream)
      /\ \A i \in 1 .. k : g.runs[i] = f.runs[i]
      /\ \A i \in 1 .. Len(page) : g.runs[k + i] = Run(page[i])
  BY <1>1, Extends
<1>5. DOMAIN g.runs = 1 .. k + Len(page)
  <2>1. g.runs \in Seq(RunType)
    BY <1>4 DEF FetchType
  <2>2. DOMAIN g.runs = 1 .. Len(g.runs)
    BY <2>1
  <2>. QED BY <1>4, <2>2
<1>7. \A i \in DOMAIN page : \A j \in 1 .. k : page[i] # f.runs[j].id
  <2>1. NoneRepeated(f, page)
    BY DEF PageConsistent
  <2>. QED BY <1>2, <2>1 DEF NoneRepeated, Seen
<1>. HIDE DEF k
<1>6. \A i \in 1 .. k + Len(page) : i \in 1 .. k \/ (i - k \in 1 .. Len(page) /\ k + (i - k) = i)
  <2>1. k \in Nat /\ Len(page) \in Nat
    BY <1>2, <1>3
  <2>. QED BY <2>1
<1>8. CASE f.pages = 0
  <2>1. f = NewFetch /\ asOf'[r].list = upstream
    BY <1>8, Remembers
  <2>2. k = 0 /\ f.pages * PerPage = 0
    BY <1>2, <1>8, <2>1 DEF NewFetch, k
  <2>3. ASSUME NEW i \in DOMAIN g.runs PROVE i \in DOMAIN upstream /\ g.runs[i] = Run(upstream[i])
    <3>1. i \in DOMAIN page /\ k + i = i /\ f.pages * PerPage + i = i
      BY <1>2, <1>3, <1>5, <2>2
    <3>. QED BY <1>3, <1>4, <3>1
  <2>. QED BY <1>4, <2>1, <2>2, <2>3 DEF Begins, k
<1>9. CASE f.pages # 0
  <2>1. asOf'[r] = asOf[r] /\ f.pages > 0
    BY <1>9, Remembers
  <2>2. PICK list \in Seq(Ids), gone \in Nat : asOf[r].list = list /\ asOf[r].removals = gone
    BY <1>1
  <2>3. /\ f.count = Len(list) /\ k = f.pages * PerPage
        /\ Few(r) => Begins(list, f.runs)
    BY <2>1, <2>2 DEF GInv, Reading, k
  <2>4. Len(list) \in Nat /\ DOMAIN list = 1 .. Len(list) /\ \A i \in DOMAIN list : list[i] \in Ids
    BY Lists
  <2>5. f.count = Len(upstream)
    BY <1>4, <2>3, <2>4
  <2>6. k >= PerPage
    <3>1. PICK x \in Nat : f.pages = x + 1
      <4>1. f.pages - 1 \in Nat /\ f.pages = (f.pages - 1) + 1
        BY <1>2, <2>1
      <4>. QED BY <4>1
    <3>2. \A y \in Nat : y * PerPage \in Nat /\ (y + 1) * PerPage = y * PerPage + PerPage
      BY <1>2
    <3>3. x * PerPage \in Nat /\ k = x * PerPage + PerPage
      BY <2>3, <3>1, <3>2
    <3>. QED BY <1>2, <3>3
  <2>7. k <= Len(list)
    BY <1>2, <1>3, <1>4, <2>3, <2>5
  <2>8. ASSUME (Few(r))' PROVE Begins(list, g.runs)
    <3>1. removals - gone < PerPage /\ Few(r)
      BY <1>1, <2>1, <2>2, <2>8 DEF Few
    <3>2. \A i \in 1 .. k : i \in DOMAIN list /\ f.runs[i] = Run(list[i])
      BY <1>2, <2>3, <3>1 DEF Begins
    <3>3. \A i \in DOMAIN page : \A j \in 1 .. k : page[i] # list[j]
      <4>1. \A i : Run(i).id = i
        BY DEF Run
      <4>. QED BY <1>7, <3>2, <4>1
    <3>4. \A i \in DOMAIN page : k + i \in DOMAIN list /\ page[i] = list[k + i]
      <4>1. /\ \A i \in DOMAIN page : k + i \in DOMAIN upstream /\ page[i] = upstream[k + i]
            /\ Len(upstream) = Len(list)
        BY <1>3, <2>3, <2>5
      <4>2. UpstreamTyped /\ Listed /\ Remains(r) /\ page \in Seq(Ids)
        BY <1>1, <1>3
      <4>3. k \in Nat /\ k >= PerPage /\ k <= Len(list) /\ removals - gone < PerPage
        BY <1>2, <2>6, <2>7, <3>1
      <4>. QED BY <2>2, <3>3, <4>1, <4>2, <4>3, NextPage
    <3>5. ASSUME NEW i \in DOMAIN g.runs PROVE i \in DOMAIN list /\ g.runs[i] = Run(list[i])
      <4>1. CASE i \in 1 .. k
        BY <1>4, <3>2, <4>1
      <4>2. CASE i - k \in 1 .. Len(page) /\ k + (i - k) = i
        BY <1>3, <1>4, <3>4, <4>2
      <4>. QED BY <1>5, <1>6, <4>1, <4>2
    <3>. QED BY <3>5 DEF Begins
  <2>. QED BY <1>4, <2>1, <2>2, <2>3, <2>5, <2>8 DEF k
<1>. QED BY <1>8, <1>9

\* A page is refused with the whole fetch, is the last one, or leaves the fetch where it was.
LEMMA ReadPageKeeps ==
  ASSUME GInv, NEW r \in Request, ReadPage(r)
  PROVE  GInv'
<1>. DEFINE f == fetch[r]
            page == Page(upstream, f.pages + 1)
            g == Extended(f, page, Len(upstream), ETag(upstream))
<1>1. /\ UNCHANGED <<upstreamVars, key, asked, store, current, answer>> /\ Remember(r)
      /\ phase[r] = "fetching" /\ f \in FetchType /\ GitHubTyped
  BY DEF ReadPage, GInv, GitHubTyped
<1>2. CASE ~PageConsistent(f, page, Len(upstream))
  <2>1. Fetched(r, Unavailable([f EXCEPT !.pages = @ + 1]))
    BY <1>2 DEF ReadPage
  <2>2. [f EXCEPT !.pages = @ + 1] \in FetchType
    BY <1>1 DEF FetchType
  <2>. QED BY <1>1, <2>1, <2>2, Results, FetchEnds
<1>3. CASE PageConsistent(f, page, Len(upstream))
  <2>1. /\ g \in FetchType /\ g.pages = f.pages + 1
        /\ g.count = Len(asOf'[r].list) /\ Len(g.runs) = Len(f.runs) + Len(page)
        /\ Len(f.runs) = f.pages * PerPage
        /\ (Few(r))' => Begins(asOf'[r].list, g.runs)
    <3>. HIDE DEF g, page
    <3>1. page = Page(upstream, fetch[r].pages + 1)
          /\ g = Extended(fetch[r], page, Len(upstream), ETag(upstream))
      BY DEF g, page
    <3>. QED BY <1>1, <1>3, <3>1, PageAdds
  <2>2. CASE LastPage(g, page)
    <3>1. Fetched(r, Observed(g))
      BY <1>3, <2>2 DEF ReadPage
    <3>. HIDE DEF g
    <3>2. /\ Observed(g) \in Outcome /\ Observed(g).state \in {"OBSERVED", "OBSERVED_PARTIAL"}
          /\ Observed(g).state = "OBSERVED" => Len(g.runs) = g.count /\ Observed(g).runs = g.runs
      BY <2>1, Results DEF Observed, Result
    <3>. QED BY <1>1, <2>1, <3>1, <3>2, FetchEnds
  <2>3. CASE ~LastPage(g, page)
    <3>1. fetch' = [fetch EXCEPT ![r] = g] /\ UNCHANGED <<phase, result>>
      BY <1>3, <2>3 DEF ReadPage
    <3>2. Len(page) = PerPage
      <4>1. f.pages + 1 \in Nat \ {0}
        BY <1>1 DEF FetchType
      <4>2. page \in Seq(Ids) /\ Len(page) <= PerPage
        BY <1>1, <4>1, PageOf DEF GitHubTyped, UpstreamTyped
      <4>3. Len(page) \in Nat /\ ~(Len(page) < PerPage) /\ PerPage \in Nat
        BY <2>3, <4>2, Lists, RunsAssumption DEF LastPage
      <4>. QED BY <4>2, <4>3
    <3>. HIDE DEF g, page
    <3>3. Len(g.runs) = g.pages * PerPage /\ g.pages > 0
      <4>1. f.pages \in Nat /\ PerPage \in Nat
        BY <1>1, RunsAssumption DEF FetchType
      <4>2. \A x \in Nat : (x + 1) * PerPage = x * PerPage + PerPage
        BY <4>1
      <4>. QED BY <2>1, <3>2, <4>1, <4>2
    <3>4. /\ fetch' \in [Request -> FetchType] /\ fetch'[r] = g
          /\ \A q \in Request : q # r => fetch'[q] = fetch[q]
      BY <1>1, <2>1, <3>1 DEF GitHubTyped
    <3>5. /\ asOf' \in [Request -> [list : Seq(Ids), removals : Nat]] /\ Remains(r)'
          /\ \A q \in Request : q # r => asOf'[q] = asOf[q]
      BY <1>1, Remembers
    <3>6. Reading(r)'
      BY <1>1, <2>1, <3>1, <3>3, <3>4 DEF Reading
    <3>7. Counted(r)'
      <4>1. Counted(r)
        BY DEF GInv
      <4>. QED BY <1>1, <3>1, <4>1 DEF Counted
    <3>. QED BY <1>1, <3>1, <3>4, <3>5, <3>6, <3>7, OneFetches DEF GitHubTyped
  <2>. QED BY <2>2, <2>3
<1>. QED BY <1>2, <1>3

-----------------------------------------------------------------------------
(* The steps of a projection. *)

\* They leave fetches and lists alone.
LEMMA PersistMoves ==
  ASSUME GInv, NEW r \in Request, PersistStep(r)
  PROVE  /\ UNCHANGED <<upstream, removals, key, fetch, result, asked, asOf>>
         /\ phase[r] \in {"fetched", "receipted", "projecting", "writing", "projected"}
         /\ \E to \in Stages \ {"new", "fetching"} : phase' = [phase EXCEPT ![r] = to]
<1>1. Retains(result[r]) \/ ~Retains(result[r])
  OBVIOUS
<1>. USE DEF Moves, Stages, upstreamVars
<1>2. CASE AppendReceipt(r) \/ KeyConflict(r)
  BY <1>2 DEF AppendReceipt, KeyConflict
<1>3. CASE ReadPrevious(r)
  BY <1>3 DEF ReadPrevious
<1>4. CASE ReadCurrent(r)
  BY <1>4 DEF ReadCurrent
<1>5. CASE Write(r) \/ Respond(r) \/ Dies(r)
  BY <1>5 DEF Write, Respond, Dies
<1>6. CASE Raced(r)
  BY <1>6 DEF Raced
<1>. QED BY <1>2, <1>3, <1>4, <1>5, <1>6 DEF PersistStep

LEMMA PersistTyped ==
  ASSUME GitHubTyped, NEW r \in Request, PersistStep(r)
  PROVE  /\ versions' \in Seq(VersionType)
         /\ current' \in [Request -> [previous : Nat, version : Nat, own : Nat]]
         /\ answer' \in [Request -> [status : {"none", "ok", "conflict"}, etag : ETags,
                                    updated : BOOLEAN]]
<1>. DEFINE Known == [previous : Nat, version : Nat, own : Nat]
            Answers == [status : {"none", "ok", "conflict"}, etag : ETags, updated : BOOLEAN]
<1>1. /\ versions \in Seq(VersionType) /\ Len(versions) \in Nat
      /\ current \in [Request -> Known] /\ current[r] \in Known
      /\ answer \in [Request -> Answers] /\ result[r] \in Outcome /\ result[r].etag \in ETags
      /\ key[r] \in GitHubKey
  BY DEF GitHubTyped, Outcome
<1>2. ASSUME NEW status \in {"none", "ok", "conflict"}, NEW updated \in BOOLEAN, Answer(r, status, updated)
      PROVE  answer' \in [Request -> Answers]
  BY <1>1, <1>2 DEF Answer
<1>3. CASE AppendReceipt(r)
  BY <1>1, <1>3 DEF AppendReceipt
<1>4. CASE KeyConflict(r)
  BY <1>1, <1>2, <1>4 DEF KeyConflict, store
<1>5. CASE ReadPrevious(r)
  BY <1>1, <1>5 DEF ReadPrevious, store
<1>6. CASE ReadCurrent(r)
  <2>1. current' = [current EXCEPT ![r] = [current[r] EXCEPT !.version = Len(versions), !.own = Len(versions)]]
    BY <1>1, <1>6 DEF ReadCurrent
  <2>2. [current[r] EXCEPT !.version = Len(versions), !.own = Len(versions)] \in Known
    BY <1>1
  <2>. QED BY <1>1, <1>6, <2>1, <2>2 DEF ReadCurrent, store
<1>7. CASE Write(r)
  <2>1. current' = [current EXCEPT ![r] = [current[r] EXCEPT !.own = Len(versions) + 1]]
    BY <1>1, <1>7 DEF Write
  <2>2. [current[r] EXCEPT !.own = Len(versions) + 1] \in Known
    <3>1. Len(versions) + 1 \in Nat
      BY <1>1
    <3>. QED BY <1>1, <3>1
  <2>3. [body |-> result[r], key |-> key[r], by |-> r] \in VersionType
    BY <1>1 DEF VersionType
  <2>. QED BY <1>1, <1>7, <2>1, <2>2, <2>3 DEF Write
<1>8. CASE Raced(r)
  <2>1. current' = [current EXCEPT ![r] = [current[r] EXCEPT !.own = Len(versions)]]
    BY <1>1, <1>8 DEF Raced
  <2>2. [current[r] EXCEPT !.own = Len(versions)] \in Known
    BY <1>1
  <2>3. answer' \in [Request -> Answers]
    BY <1>1, <1>2, <1>8 DEF Raced
  <2>. QED BY <1>1, <1>8, <2>1, <2>2, <2>3 DEF Raced, store
<1>9. CASE Respond(r)
  BY <1>1, <1>2, <1>9 DEF Respond, store
<1>10. CASE Dies(r)
  BY <1>1, <1>10 DEF Dies, store
<1>. QED BY <1>3, <1>4, <1>5, <1>6, <1>7, <1>8, <1>9, <1>10 DEF PersistStep

LEMMA PersistKeeps ==
  ASSUME GInv, NEW r \in Request, PersistStep(r)
  PROVE  GInv'
<1>1. /\ UNCHANGED <<upstream, removals, key, fetch, result, asked, asOf>>
      /\ phase[r] \in {"fetched", "receipted", "projecting", "writing", "projected"}
  BY PersistMoves
<1>2. PICK to \in Stages \ {"new", "fetching"} : phase' = [phase EXCEPT ![r] = to]
  BY PersistMoves
<1>3. GitHubTyped'
  <2>1. phase' \in [Request -> Stages]
    BY <1>2 DEF GInv, GitHubTyped
  <2>. QED BY <1>1, <2>1, PersistTyped DEF GInv, GitHubTyped, UpstreamTyped
<1>4. Listed'
  BY <1>1 DEF GInv, Listed, Newest
<1>5. ASSUME NEW q \in Request PROVE Remains(q)' /\ Reading(q)' /\ Counted(q)'
  <2>1. Remains(q)'
    BY <1>1 DEF GInv, Remains, Newest
  <2>2. phase'[q] = phase[q] \/ (phase[q] \notin {"new", "fetching"} /\ phase'[q] \notin {"new", "fetching"})
    BY <1>1, <1>2 DEF GInv, GitHubTyped
  <2>3. removals' \in Nat /\ removals <= removals'
    BY <1>1 DEF GInv, GitHubTyped, UpstreamTyped
  <2>. QED BY <1>1, <2>1, <2>2, <2>3, OthersKeepLists
<1>. QED BY <1>3, <1>4, <1>5 DEF GInv

-----------------------------------------------------------------------------
(* The theorem. *)

LEMMA UpstreamKeeps ==
  ASSUME GInv, NewRun \/ RemoveRun
  PROVE  GInv'
<1>1. /\ UNCHANGED <<key, phase, fetch, result, asked, asOf, receipts, versions, current, answer>>
      /\ removals' \in Nat /\ removals <= removals'
  BY DEF NewRun, RemoveRun, GInv, GitHubTyped, UpstreamTyped
<1>2. /\ UpstreamTyped' /\ Listed'
      /\ \A r \in Request : Remains(r)'
  BY NewRunKeeps, RemoveRunKeeps DEF GInv, GitHubTyped
<1>3. \A r \in Request : Reading(r)' /\ Counted(r)'
  BY <1>1, OthersKeepLists
<1>4. GitHubTyped'
  BY <1>1, <1>2 DEF GInv, GitHubTyped
<1>. QED BY <1>2, <1>3, <1>4 DEF GInv

LEMMA FirstList ==
  ASSUME GitHubInit
  PROVE  GInv
<1>1. /\ upstream = [i \in 1 .. FirstRuns |-> FirstRuns + 1 - i] /\ removals = 0
      /\ FirstRuns \in Nat /\ \A i \in 1 .. FirstRuns : i \in Ids
  BY RunsAssumption DEF GitHubInit
<1>2. /\ upstream \in Seq(Ids) /\ Len(upstream) = FirstRuns /\ DOMAIN upstream = 1 .. FirstRuns
      /\ \A i \in 1 .. FirstRuns : upstream[i] = FirstRuns + 1 - i /\ upstream[i] > 0
  <2>1. \A i \in 1 .. FirstRuns : FirstRuns + 1 - i \in 1 .. FirstRuns
    BY <1>1
  <2>. QED BY <1>1, <2>1
<1>3. GitHubTyped
  <2>1. <<>> \in Seq(Ids) /\ <<>> \in Seq(VersionType) /\ NoETag \in ETags
    BY DEF ETags
  <2>. QED BY <1>1, <1>2, <2>1, NothingYet DEF GitHubInit, GitHubTyped, UpstreamTyped, Stages
<1>4. Listed
  BY <1>1, <1>2 DEF Listed, Newest
<1>5. ASSUME NEW r \in Request PROVE Remains(r) /\ Reading(r) /\ Counted(r)
  <2>1. asOf[r].list = <<>> /\ asOf[r].removals = 0 /\ phase[r] = "new" /\ fetch[r] = NewFetch
        /\ result[r] = NoResult
    BY DEF GitHubInit
  <2>2. Len(<<>>) = 0 /\ DOMAIN <<>> = {}
    OBVIOUS
  <2>3. Remains(r)
    BY <1>1, <1>2, <2>1, <2>2 DEF Remains, Newest
  <2>. QED BY <2>1, <2>3, NothingYet DEF Reading, Counted
<1>. QED BY <1>3, <1>4, <1>5 DEF GInv

LEMMA ListsStep ==
  ASSUME GInv, [GitHubNext]_gitHubVars
  PROVE  GInv'
<1>1. CASE UNCHANGED gitHubVars
  <2>1. GitHubTyped' /\ Listed'
    BY <1>1 DEF gitHubVars, GInv, GitHubTyped, UpstreamTyped, Listed, Newest
  <2>2. ASSUME NEW r \in Request PROVE Remains(r)' /\ Reading(r)' /\ Counted(r)'
    <3>1. UNCHANGED <<upstream, removals, asOf, phase, fetch, result>>
      BY <1>1 DEF gitHubVars
    <3>2. removals \in Nat /\ Remains(r)
      BY DEF GInv, GitHubTyped, UpstreamTyped
    <3>3. Remains(r)'
      BY <3>1, <3>2 DEF Remains, Newest
    <3>. QED BY <3>1, <3>2, <3>3, OthersKeepLists
  <2>. QED BY <2>1, <2>2 DEF GInv
<1>2. ASSUME NEW r \in Request, FetchStep(r) PROVE GInv'
  BY <1>2, BeginKeeps, NoListKeeps, ReadPageKeeps DEF FetchStep
<1>3. ASSUME NEW r \in Request, PersistStep(r) PROVE GInv'
  BY <1>3, PersistKeeps
<1>. QED BY <1>1, <1>2, <1>3, UpstreamKeeps DEF GitHubNext

LEMMA ListsInvariance == GitHubSpec => []GInv
<1>1. GitHubInit => GInv
  BY FirstList
<1>2. GInv /\ [GitHubNext]_gitHubVars => GInv'
  BY ListsStep
<1>. QED BY <1>1, <1>2, PTL DEF GitHubSpec

\* An observation that calls itself complete is the list of runs as it was when its first page was
\* read, though runs were added and removed between pages, as long as fewer were removed than a
\* page holds (the checks of fetch_workflow_runs on count and identity).
THEOREM CensusIsExact == GitHubSpec => []CensusExact
<1>1. GInv => CensusExact
  <2>1. SUFFICES ASSUME GInv, NEW r \in Request, result[r].state = "OBSERVED",
                        removals - asOf[r].removals < PerPage
                 PROVE  /\ [i \in DOMAIN result[r].runs |-> result[r].runs[i].id] = asOf[r].list
                        /\ \A i \in DOMAIN result[r].runs : result[r].runs[i].duration >= -1
    BY DEF CensusExact
  <2>2. /\ Len(result[r].runs) = Len(asOf[r].list) /\ Begins(asOf[r].list, result[r].runs)
        /\ result[r].runs \in Seq(RunType) /\ asOf[r].list \in Seq(Ids)
    BY <2>1 DEF GInv, Counted, Few, GitHubTyped, Outcome
  <2>3. DOMAIN result[r].runs = DOMAIN asOf[r].list
    BY <2>2
  <2>4. \A i \in DOMAIN result[r].runs : result[r].runs[i].id = asOf[r].list[i]
    <3>1. \A i : Run(i).id = i
      BY DEF Run
    <3>. QED BY <2>2, <3>1 DEF Begins
  <2>5. asOf[r].list = [i \in DOMAIN asOf[r].list |-> asOf[r].list[i]]
    BY <2>2
  <2>6. ASSUME NEW i \in DOMAIN result[r].runs PROVE result[r].runs[i].duration >= -1
    <3>1. PICK j \in Ids : ValidRun(Item[j]) /\ result[r].runs[i] = Run(j)
      BY <2>2 DEF RunType
    <3>2. /\ Item[j].created \in Nat /\ Item[j].started \in Nat /\ Item[j].updated \in Nat
      BY RunsAssumption
    <3>3. Started(Item[j]) \in Nat /\ Started(Item[j]) <= Item[j].updated
      BY <3>1, <3>2 DEF Started, ValidRun
    <3>. QED BY <3>1, <3>2, <3>3 DEF Run
  <2>. QED BY <2>3, <2>4, <2>5, <2>6
<1>. QED BY ListsInvariance, <1>1, PTL

-----------------------------------------------------------------------------
(* Projections. *)

Receipt(v) == [key |-> v.key, content |-> ReceiptOf(v.body)]

\* A version has a receipt, lists something, and differs from the one before.
Honest(i) ==
  /\ Receipt(versions[i]) \in receipts
  /\ ~Retains(versions[i].body) /\ versions[i].body.state # "NONE"
  /\ i > 1 => versions[i - 1].body # versions[i].body

Past == {"receipted", "projecting", "writing", "projected", "ok"}

\* What a request has behind it: its receipt; the version it read, which is still the latest or
\* will not be again; the version that holds its result; its own version, if it wrote one.
Stands(r) ==
  /\ phase[r] \in Past => Mine(r) \in receipts
  /\ phase[r] \in {"projecting", "writing"} =>
       ~Retains(result[r]) /\ current[r].previous <= Len(versions)
  /\ phase[r] = "writing" =>
       /\ current[r].version <= Len(versions)
       /\ current[r].version = Len(versions) => Latest # result[r]
  /\ phase[r] \in {"projected", "ok"} /\ ~Retains(result[r]) =>
       \E i \in DOMAIN versions : versions[i].body = result[r]
  /\ \A i \in DOMAIN versions : versions[i].by = r =>
       phase[r] \in {"projected", "ok", "lost"} /\ current[r].own > current[r].previous
  /\ phase[r] = "ok" => answer[r].updated = (current[r].own # current[r].previous)

HInv ==
  /\ GInv
  /\ \A i \in DOMAIN versions : Honest(i)
  /\ \A r \in Request : Stands(r)

LEMMA VersionsAre ==
  ASSUME GInv
  PROVE  /\ versions \in Seq(VersionType) /\ Len(versions) \in Nat /\ DOMAIN versions = 1 .. Len(versions)
         /\ \A x : Latest = x /\ x.state # "NONE" => \E i \in DOMAIN versions : versions[i].body = x
         /\ \A i \in DOMAIN versions : i = Len(versions) => Latest = versions[i].body
<1>1. versions \in Seq(VersionType) /\ Len(versions) \in Nat /\ DOMAIN versions = 1 .. Len(versions)
  BY DEF GInv, GitHubTyped
<1>2. versions # <<>> => Len(versions) \in DOMAIN versions /\ Latest = versions[Len(versions)].body
  BY <1>1 DEF Latest, Last
<1>3. versions = <<>> => Latest.state = "NONE" /\ DOMAIN versions = {}
  BY NothingYet DEF Latest
<1>. QED BY <1>1, <1>2, <1>3

\* A step that leaves the versions: the others stand as they did.
LEMMA VersionsStand ==
  ASSUME HInv, GInv', NEW r \in Request, versions' = versions, receipts \subseteq receipts',
         \A q \in Request : q # r =>
           /\ phase'[q] = phase[q] /\ result'[q] = result[q] /\ key'[q] = key[q]
           /\ current'[q] = current[q] /\ answer'[q] = answer[q],
         Stands(r)'
  PROVE  HInv'
<1>1. \A i \in DOMAIN versions : Honest(i)'
  BY DEF HInv, Honest, Receipt
<1>2. Latest' = Latest
  BY DEF Latest
<1>3. ASSUME NEW q \in Request, q # r PROVE Stands(q)'
  <2>1. Stands(q)
    BY DEF HInv
  <2>2. Mine(q)' = Mine(q)
    BY <1>3 DEF Mine
  <2>. QED BY <1>2, <1>3, <2>1, <2>2 DEF Stands
<1>. QED BY <1>1, <1>3 DEF HInv

LEMMA FetchStands ==
  ASSUME HInv, NEW r \in Request, FetchStep(r)
  PROVE  HInv'
<1>1. UNCHANGED <<key, receipts, versions, current, answer>> /\ phase[r] \in {"new", "fetching"}
  BY DEF FetchStep, Begin, NotModified, ReadPage, PageFails, Moves, Fetched, store
<1>2. GInv'
  BY BeginKeeps, NoListKeeps, ReadPageKeeps DEF FetchStep, HInv
<1>3. /\ phase'[r] \in {"fetching", "fetched"}
      /\ \A q \in Request : q # r => phase'[q] = phase[q] /\ result'[q] = result[q]
  <2>1. phase \in [Request -> Stages] /\ result \in [Request -> Outcome]
    BY DEF HInv, GInv, GitHubTyped
  <2>2. CASE Begin(r)
    BY <2>1, <2>2 DEF Begin, Moves
  <2>3. ASSUME NEW outcome, Fetched(r, outcome)
        PROVE  /\ phase'[r] \in {"fetching", "fetched"}
               /\ \A q \in Request : q # r => phase'[q] = phase[q] /\ result'[q] = result[q]
    BY <2>1, <2>3 DEF Fetched, Moves
  <2>4. ReadPage(r) => (\E outcome : Fetched(r, outcome)) \/ (UNCHANGED <<phase, result>> /\ phase[r] = "fetching")
    BY DEF ReadPage
  <2>5. NotModified(r) \/ PageFails(r) => \E outcome : Fetched(r, outcome)
    BY DEF NotModified, PageFails
  <2>. QED BY <2>2, <2>3, <2>4, <2>5 DEF FetchStep
<1>4. Stands(r)'
  BY <1>1, <1>3 DEF HInv, Stands, Past
<1>. QED BY <1>1, <1>2, <1>3, <1>4, VersionsStand

LEMMA ReceiptStands ==
  ASSUME HInv, NEW r \in Request, AppendReceipt(r) \/ KeyConflict(r)
  PROVE  HInv'
<1>1. /\ UNCHANGED <<key, result, versions, current>> /\ phase[r] = "fetched"
      /\ phase \in [Request -> Stages] /\ Stands(r)
  BY DEF AppendReceipt, KeyConflict, Moves, store, HInv, GInv, GitHubTyped
<1>2. GInv'
  BY PersistKeeps DEF PersistStep, HInv
<1>3. CASE AppendReceipt(r)
  <2>1. phase'[r] = "receipted" /\ (\A q \in Request : q # r => phase'[q] = phase[q]) /\ answer' = answer
    BY <1>1, <1>3 DEF AppendReceipt, Moves
  <2>2. receipts \subseteq receipts' /\ Mine(r) \in receipts'
    BY <1>3 DEF AppendReceipt, Agrees, Mine
  <2>3. Mine(r)' = Mine(r)
    BY <1>1 DEF Mine
  <2>4. Stands(r)'
    BY <1>1, <2>1, <2>2, <2>3 DEF Stands
  <2>. QED BY <1>1, <1>2, <2>1, <2>2, <2>4, VersionsStand
<1>4. CASE KeyConflict(r)
  <2>1. phase'[r] = "conflict" /\ (\A q \in Request : q # r => phase'[q] = phase[q] /\ answer'[q] = answer[q])
    BY <1>1, <1>4 DEF KeyConflict, Moves, Answer, HInv, GInv, GitHubTyped
  <2>2. receipts' = receipts
    BY <1>4 DEF KeyConflict, store
  <2>3. Stands(r)'
    BY <1>1, <2>1 DEF Stands, Past
  <2>. QED BY <1>1, <1>2, <2>1, <2>2, <2>3, VersionsStand
<1>. QED BY <1>3, <1>4

LEMMA ReadStands ==
  ASSUME HInv, NEW r \in Request, ReadPrevious(r) \/ ReadCurrent(r)
  PROVE  HInv'
<1>1. /\ UNCHANGED <<key, result, receipts, versions, answer>>
      /\ phase \in [Request -> Stages] /\ Stands(r) /\ Counted(r)
      /\ current \in [Request -> [previous : Nat, version : Nat, own : Nat]]
  BY DEF ReadPrevious, ReadCurrent, store, HInv, GInv, GitHubTyped
<1>2. GInv'
  BY PersistKeeps DEF PersistStep, HInv
<1>3. Mine(r)' = Mine(r) /\ Latest' = Latest
  BY <1>1 DEF Mine, Latest
<1>4. GInv /\ Len(versions) \in Nat
  BY VersionsAre DEF HInv
<1>5. CASE ReadPrevious(r)
  <2>1. /\ phase[r] = "receipted"
        /\ phase'[r] = IF Retains(result[r]) THEN "projected" ELSE "projecting"
        /\ current'[r] = [previous |-> Len(versions), version |-> Len(versions), own |-> Len(versions)]
        /\ \A q \in Request : q # r => phase'[q] = phase[q] /\ current'[q] = current[q]
    BY <1>1, <1>5 DEF ReadPrevious, Moves
  <2>2. Stands(r)'
    BY <1>1, <1>3, <1>4, <2>1 DEF Stands, Past
  <2>. QED BY <1>1, <1>2, <2>1, <2>2, VersionsStand
<1>6. CASE ReadCurrent(r)
  <2>1. /\ phase[r] = "projecting"
        /\ phase'[r] = IF Latest = result[r] THEN "projected" ELSE "writing"
        /\ current'[r].previous = current[r].previous /\ current'[r].version = Len(versions)
        /\ \A q \in Request : q # r => phase'[q] = phase[q] /\ current'[q] = current[q]
    BY <1>1, <1>6 DEF ReadCurrent, Moves
  <2>2. Latest = result[r] => \E i \in DOMAIN versions : versions[i].body = result[r]
    BY <1>1, <1>4, <2>1, VersionsAre DEF Counted
  <2>3. Stands(r)'
    BY <1>1, <1>3, <1>4, <2>1, <2>2 DEF Stands, Past
  <2>. QED BY <1>1, <1>2, <2>1, <2>3, VersionsStand
<1>. QED BY <1>5, <1>6

LEMMA WriteStands ==
  ASSUME HInv, NEW r \in Request, Write(r)
  PROVE  HInv'
<1>. DEFINE x == [body |-> result[r], key |-> key[r], by |-> r]
            len == Len(versions)
<1>1. /\ UNCHANGED <<key, result, receipts, answer>> /\ phase[r] = "writing"
      /\ versions' = Append(versions, x) /\ current[r].version = len
      /\ phase \in [Request -> Stages] /\ Counted(r)
      /\ current \in [Request -> [previous : Nat, version : Nat, own : Nat]]
  BY DEF Write, Unmoved, Moves, HInv, GInv, GitHubTyped
<1>2. /\ phase'[r] = "projected" /\ current'[r].own = len + 1 /\ current'[r].previous = current[r].previous
      /\ \A q \in Request : q # r => phase'[q] = phase[q] /\ current'[q] = current[q]
  BY <1>1 DEF Write, Moves
<1>3. GInv' /\ GInv
  BY PersistKeeps DEF PersistStep, HInv
<1>4. /\ versions \in Seq(VersionType) /\ len \in Nat /\ DOMAIN versions = 1 .. len
      /\ len \in DOMAIN versions => Latest = versions[len].body
  BY <1>3, VersionsAre
<1>5. /\ Len(versions') = len + 1 /\ DOMAIN versions' = 1 .. len + 1
      /\ \A i \in 1 .. len : versions'[i] = versions[i]
      /\ versions'[len + 1] = x
  <2>1. x \in VersionType
    BY <1>1 DEF VersionType, HInv, GInv, GitHubTyped
  <2>. QED BY <1>1, <1>4, <2>1
<1>6. /\ Mine(r) \in receipts /\ ~Retains(result[r]) /\ Latest # result[r]
      /\ current[r].previous <= len /\ \A i \in DOMAIN versions : versions[i].by # r
  BY <1>1 DEF HInv, Stands, Past
<1>. HIDE DEF len
<1>7. \A i \in 1 .. len + 1 : i \in 1 .. len \/ i = len + 1
  BY <1>4
<1>8. ASSUME NEW i \in DOMAIN versions' PROVE Honest(i)'
  <2>1. CASE i \in 1 .. len
    <3>1. Honest(i) /\ i \in DOMAIN versions
      BY <1>4, <2>1 DEF HInv
    <3>2. i > 1 => i - 1 \in 1 .. len
      BY <1>4, <2>1
    <3>. QED BY <1>1, <1>5, <2>1, <3>1, <3>2 DEF Honest, Receipt
  <2>2. CASE i = len + 1
    <3>1. (Receipt(versions[i]))' = Mine(r)
      BY <1>5, <2>2 DEF Receipt, Mine
    <3>2. i > 1 => versions'[i - 1].body = Latest
      <4>1. i > 1 => i - 1 = len /\ len \in DOMAIN versions
        BY <1>4, <2>2
      <4>. QED BY <1>4, <1>5, <4>1
    <3>3. versions'[i].body = result[r] /\ result[r].state # "NONE"
      BY <1>1, <1>5, <2>2 DEF Counted
    <3>. QED BY <1>1, <1>6, <3>1, <3>2, <3>3 DEF Honest
  <2>. QED BY <1>5, <1>7, <2>1, <2>2
<1>9. ASSUME NEW q \in Request PROVE Stands(q)'
  <2>1. Mine(q)' = Mine(q)
    BY <1>1 DEF Mine
  <2>2. \A y : (\E i \in DOMAIN versions : versions[i].body = y) => \E i \in DOMAIN versions' : versions'[i].body = y
    BY <1>4, <1>5
  <2>3. CASE q = r
    <3>1. \E i \in DOMAIN versions' : versions'[i].body = result[r]
      BY <1>4, <1>5
    <3>2. current'[r].own > current'[r].previous
      BY <1>1, <1>2, <1>4, <1>6
    <3>. QED BY <1>1, <1>2, <1>6, <2>1, <2>3, <3>1, <3>2 DEF Stands
  <2>4. CASE q # r
    <3>1. Stands(q) /\ phase'[q] = phase[q] /\ current'[q] = current[q]
      BY <1>2, <2>4 DEF HInv
    <3>2. \A i \in DOMAIN versions' : versions'[i].by = q => i \in DOMAIN versions /\ versions[i].by = q
      BY <1>4, <1>5, <1>7, <2>4
    <3>3. \A n \in Nat : n <= len => n <= len + 1 /\ n # len + 1
      BY <1>4
    <3>4. current[q].previous \in Nat /\ current[q].version \in Nat
      BY <1>1
    <3>5. Len(versions) = len
      BY DEF len
    <3>6. /\ phase[q] \in Past => Mine(q) \in receipts
          /\ phase[q] \in {"projecting", "writing"} =>
               ~Retains(result[q]) /\ current[q].previous <= len
          /\ phase[q] = "writing" => current[q].version <= len
          /\ phase[q] \in {"projected", "ok"} /\ ~Retains(result[q]) =>
               \E i \in DOMAIN versions : versions[i].body = result[q]
          /\ \A i \in DOMAIN versions : versions[i].by = q =>
               phase[q] \in {"projected", "ok", "lost"} /\ current[q].own > current[q].previous
          /\ phase[q] = "ok" => answer[q].updated = (current[q].own # current[q].previous)
      BY <3>1, <3>5 DEF Stands
    <3>7. /\ phase[q] \in {"projecting", "writing"} => current[q].previous <= len + 1
          /\ phase[q] = "writing" => current[q].version <= len + 1 /\ current[q].version # len + 1
      BY <3>3, <3>4, <3>6
    <3>8. /\ phase[q] \in {"projected", "ok"} /\ ~Retains(result[q]) =>
               \E i \in DOMAIN versions' : versions'[i].body = result[q]
          /\ \A i \in DOMAIN versions' : versions'[i].by = q =>
               phase[q] \in {"projected", "ok", "lost"} /\ current[q].own > current[q].previous
      BY <2>2, <3>2, <3>6
    <3>. QED BY <1>1, <1>5, <2>1, <3>1, <3>6, <3>7, <3>8 DEF Stands
  <2>. QED BY <2>3, <2>4
<1>. QED BY <1>3, <1>8, <1>9 DEF HInv

LEMMA EndStands ==
  ASSUME HInv, NEW r \in Request, Raced(r) \/ Respond(r) \/ Dies(r)
  PROVE  HInv'
<1>1. /\ UNCHANGED <<key, result, receipts, versions>>
      /\ phase \in [Request -> Stages] /\ Stands(r) /\ Counted(r)
      /\ current \in [Request -> [previous : Nat, version : Nat, own : Nat]]
      /\ answer \in [Request -> [status : {"none", "ok", "conflict"}, etag : ETags, updated : BOOLEAN]]
  BY DEF Raced, Respond, Dies, store, HInv, GInv, GitHubTyped
<1>2. GInv' /\ GInv
  BY PersistKeeps DEF PersistStep, HInv
<1>3. Mine(r)' = Mine(r) /\ Latest' = Latest
  BY <1>1 DEF Mine, Latest
<1>4. CASE Raced(r)
  <2>1. /\ phase[r] = "writing"
        /\ \/ phase'[r] = "projected" /\ Latest = result[r]
           \/ phase'[r] = "conflict"
        /\ \A q \in Request : q # r =>
             phase'[q] = phase[q] /\ current'[q] = current[q] /\ answer'[q] = answer[q]
    BY <1>1, <1>4 DEF Raced, Moves, Answer
  <2>2. Latest = result[r] => \E i \in DOMAIN versions : versions[i].body = result[r]
    BY <1>1, <1>2, <2>1, VersionsAre DEF Counted
  <2>3. Stands(r)'
    BY <1>1, <1>3, <2>1, <2>2 DEF Stands, Past
  <2>. QED BY <1>1, <1>2, <2>1, <2>3, VersionsStand
<1>5. CASE Respond(r)
  <2>1. /\ phase[r] = "projected" /\ phase'[r] = "ok" /\ current' = current
        /\ answer'[r].updated = (current[r].own # current[r].previous)
        /\ \A q \in Request : q # r => phase'[q] = phase[q] /\ answer'[q] = answer[q]
    BY <1>1, <1>5 DEF Respond, Moves, Answer
  <2>2. Stands(r)'
    BY <1>1, <1>3, <2>1 DEF Stands, Past
  <2>. QED BY <1>1, <1>2, <2>1, <2>2, VersionsStand
<1>6. CASE Dies(r)
  <2>1. /\ phase'[r] = "lost" /\ current' = current /\ answer' = answer
        /\ \A q \in Request : q # r => phase'[q] = phase[q]
    BY <1>1, <1>6 DEF Dies
  <2>2. Stands(r)'
    BY <1>1, <2>1 DEF Stands, Past
  <2>. QED BY <1>1, <1>2, <2>1, <2>2, VersionsStand
<1>. QED BY <1>4, <1>5, <1>6

LEMMA StandsStep ==
  ASSUME HInv, [GitHubNext]_gitHubVars
  PROVE  HInv'
<1>1. CASE UNCHANGED gitHubVars \/ NewRun \/ RemoveRun
  <2>1. UNCHANGED <<key, phase, result, receipts, versions, current, answer>>
    BY <1>1 DEF gitHubVars, NewRun, RemoveRun
  <2>2. GInv'
    BY <1>1, ListsStep DEF HInv, GitHubNext
  <2>3. \A i \in DOMAIN versions' : Honest(i)'
    BY <2>1 DEF HInv, Honest, Receipt
  <2>4. ASSUME NEW r \in Request PROVE Stands(r)'
    <3>1. Mine(r)' = Mine(r) /\ Latest' = Latest /\ Stands(r)
      BY <2>1 DEF Mine, Latest, HInv
    <3>. QED BY <2>1, <3>1 DEF Stands
  <2>. QED BY <2>2, <2>3, <2>4 DEF HInv
<1>2. ASSUME NEW r \in Request, FetchStep(r) PROVE HInv'
  BY <1>2, FetchStands
<1>3. ASSUME NEW r \in Request, PersistStep(r) PROVE HInv'
  BY <1>3, ReceiptStands, ReadStands, WriteStands, EndStands DEF PersistStep
<1>. QED BY <1>1, <1>2, <1>3 DEF GitHubNext

\* Every projected snapshot was receipted first, no 304 replaces a snapshot, none is projected twice
\* in a row, and what is answered ok is durable, whatever requests race and processes die
\* (ingest_github_actions and _persist_projection).
THEOREM ProjectionsAreHonest == GitHubSpec => []ProjectionsHonest
<1>1. GitHubInit => HInv
  <2>1. SUFFICES ASSUME GitHubInit PROVE HInv
    OBVIOUS
  <2>2. versions = <<>> /\ \A r \in Request : phase[r] = "new"
    BY <2>1 DEF GitHubInit
  <2>. QED BY <2>1, <2>2, FirstList DEF HInv, Stands, Past
<1>2. HInv /\ [GitHubNext]_gitHubVars => HInv'
  BY StandsStep
<1>3. HInv => ProjectionsHonest
  <2>1. SUFFICES ASSUME HInv PROVE ProjectionsHonest
    OBVIOUS
  <2>2. \A i \in DOMAIN versions : Honest(i)
    BY <2>1 DEF HInv
  <2>3. ASSUME NEW r \in Request, phase[r] = "ok"
        PROVE  /\ Mine(r) \in receipts
               /\ result[r].state # "NOT_MODIFIED" => \E i \in DOMAIN versions : versions[i].body = result[r]
               /\ \A i \in DOMAIN versions : versions[i].by = r => answer[r].updated
    <3>1. Stands(r) /\ current[r].own \in Nat /\ current[r].previous \in Nat
          /\ answer[r].updated \in BOOLEAN
      BY <2>1 DEF HInv, GInv, GitHubTyped
    <3>2. Mine(r) \in receipts
      BY <2>3, <3>1 DEF Stands, Past
    <3>3. result[r].state # "NOT_MODIFIED" => \E i \in DOMAIN versions : versions[i].body = result[r]
      BY <2>3, <3>1 DEF Stands, Retains
    <3>4. ASSUME NEW i \in DOMAIN versions, versions[i].by = r PROVE answer[r].updated = TRUE
      BY <2>3, <3>1, <3>4 DEF Stands
    <3>. QED BY <3>2, <3>3, <3>4
  <2>. QED BY <2>2, <2>3 DEF ProjectionsHonest, Honest, Receipt, Retains
<1>. QED BY <1>1, <1>2, <1>3, PTL DEF GitHubSpec

-----------------------------------------------------------------------------
(* The places of a walk stand in one order. *)

Quadruple(x) == \E g, s, i, p \in Nat : x = <<g, s, i, p>>

LEMMA PlaceTypes == \A x \in Places : Quadruple(x)
<1>. SUFFICES ASSUME NEW x \in Places PROVE Quadruple(x)
  OBVIOUS
<1>1. PICK g \in 0 .. MaxResources, s \in 0 .. MaxScopes, i \in 0 .. MaxRecords, p \in 0 .. MaxRecords :
        x = <<g, s, i, p>>
  BY DEF Places
<1>2. g \in Nat /\ s \in Nat /\ i \in Nat /\ p \in Nat
  BY LimitsAssumption
<1>. QED BY <1>1, <1>2 DEF Quadruple

LEMMA Order ==
  ASSUME NEW x, NEW y, Quadruple(x), Quadruple(y)
  PROVE  Precedes(x, y) <=>
           \/ x[1] < y[1]
           \/ x[1] = y[1] /\ x[2] < y[2]
           \/ x[1] = y[1] /\ x[2] = y[2] /\ x[3] < y[3]
           \/ x[1] = y[1] /\ x[2] = y[2] /\ x[3] = y[3] /\ x[4] < y[4]
<1>1. \A k \in 1 .. 4 : k \in {1, 2, 3, 4}
  OBVIOUS
<1>2. 1 .. 1 - 1 = {} /\ 1 .. 2 - 1 = {1} /\ 1 .. 3 - 1 = {1, 2} /\ 1 .. 4 - 1 = {1, 2, 3}
  OBVIOUS
<1>3. Precedes(x, y) <=> \E k \in {1, 2, 3, 4} : x[k] < y[k] /\ \A j \in 1 .. k - 1 : x[j] = y[j]
  BY <1>1 DEF Precedes
<1>. QED BY <1>2, <1>3

LEMMA OrderIsStrict ==
  ASSUME NEW x, NEW y, NEW z, Quadruple(x), Quadruple(y), Quadruple(z)
  PROVE  /\ ~Precedes(x, x)
         /\ Precedes(x, y) => ~Precedes(y, x)
         /\ Precedes(x, y) /\ Precedes(y, z) => Precedes(x, z)
<1>1. /\ x[1] \in Nat /\ x[2] \in Nat /\ x[3] \in Nat /\ x[4] \in Nat
      /\ y[1] \in Nat /\ y[2] \in Nat /\ y[3] \in Nat /\ y[4] \in Nat
      /\ z[1] \in Nat /\ z[2] \in Nat /\ z[3] \in Nat /\ z[4] \in Nat
  BY DEF Quadruple
<1>2. ~Precedes(x, x)
  BY <1>1, Order
<1>3. Precedes(x, y) => ~Precedes(y, x)
  BY <1>1, Order
<1>4. Precedes(x, y) /\ Precedes(y, z) => Precedes(x, z)
  BY <1>1, Order
<1>. QED BY <1>2, <1>3, <1>4

LEMMA OrderIsTotal ==
  ASSUME NEW x, NEW y, Quadruple(x), Quadruple(y), x # y
  PROVE  Precedes(x, y) \/ Precedes(y, x)
<1>1. PICK a1, a2, a3, a4 \in Nat : x = <<a1, a2, a3, a4>>
  BY DEF Quadruple
<1>2. PICK b1, b2, b3, b4 \in Nat : y = <<b1, b2, b3, b4>>
  BY DEF Quadruple
<1>3. a1 # b1 \/ a2 # b2 \/ a3 # b3 \/ a4 # b4
  BY <1>1, <1>2
<1>4. /\ x[1] = a1 /\ x[2] = a2 /\ x[3] = a3 /\ x[4] = a4
      /\ y[1] = b1 /\ y[2] = b2 /\ y[3] = b3 /\ y[4] = b4
  BY <1>1, <1>2
<1>. QED BY <1>3, <1>4, Order

LEMMA PlacesFinite == IsFiniteSet(Places)
<1>. DEFINE upper == (0 .. MaxResources) \X (0 .. MaxScopes)
            lower == (0 .. MaxRecords) \X (0 .. MaxRecords)
            joined == [pair \in upper \X lower |-> <<pair[1][1], pair[1][2], pair[2][1], pair[2][2]>>]
<1>1. IsFiniteSet(0 .. MaxResources) /\ IsFiniteSet(0 .. MaxScopes) /\ IsFiniteSet(0 .. MaxRecords)
  BY LimitsAssumption, FS_Interval
<1>2. IsFiniteSet(upper) /\ IsFiniteSet(lower)
  BY <1>1, FS_Product
<1>3. IsFiniteSet(upper \X lower)
  BY <1>2, FS_Product
<1>4. joined \in Surjection(upper \X lower, Places)
  <2>1. joined \in [upper \X lower -> Places]
    BY DEF Places
  <2>2. ASSUME NEW x \in Places PROVE \E pair \in upper \X lower : joined[pair] = x
    <3>1. PICK g \in 0 .. MaxResources, s \in 0 .. MaxScopes, i \in 0 .. MaxRecords, p \in 0 .. MaxRecords :
            x = <<g, s, i, p>>
      BY DEF Places
    <3>2. <<<<g, s>>, <<i, p>>>> \in upper \X lower
      OBVIOUS
    <3>3. joined[<<<<g, s>>, <<i, p>>>>] = x
      BY <3>1, <3>2
    <3>. QED BY <3>2, <3>3
  <2>. QED BY <2>1, <2>2 DEF Surjection
<1>. HIDE DEF upper, lower, joined
<1>. QED BY <1>3, <1>4, FS_Surjection

-----------------------------------------------------------------------------
(* What a visit may be, whatever node it is of. *)

\* A visit yields one sound record of an accepted node, or none.
SoundVisit(visit) == visit.yield = <<>> \/ \E r : visit.yield = <<r>> /\ SoundRecord(r)
Uncredentialled(context) == (context.resource \cup context.scope) \cap Sensitive = {}

LEMMA NodeParts ==
  ASSUME NEW v \in Nodes
  PROVE  /\ v.n \in Int /\ v.e \in Seq(Nodes)
         /\ \A name \in DOMAIN v.f : v.f[name] \in Nodes
         /\ \A i \in 1 .. Len(v.e) : v.e[i] \in Nodes
<1>1. v.n \in Int /\ v.e \in Seq(Nodes) /\ \A name \in DOMAIN v.f : v.f[name] \in Nodes
  BY NodesAssumption
<1>2. \A i \in 1 .. Len(v.e) : v.e[i] \in Nodes
  BY <1>1, ElementOfSeq
<1>. QED BY <1>1, <1>2

LEMMA KeptUncredentialled ==
  ASSUME NEW group, NEW scope
  PROVE  Uncredentialled([resource |-> Kept(group, "resource"), scope |-> Kept(scope, "scope")])
  BY DEF Uncredentialled, Kept, Clean

LEMMA SpanSound ==
  ASSUME NEW v, NEW context, Uncredentialled(context)
  PROVE  SoundVisit(SpanVisit(v, context))
<1>1. CASE ~Span(v)
  BY <1>1 DEF SpanVisit, Refused, Visit, SoundVisit
<1>2. CASE Span(v)
  <2>. DEFINE ends == v.f["endTimeUnixNano"].n
              starts == v.f["startTimeUnixNano"].n
              r == [resource |-> context.resource, scope |-> context.scope, attributes |-> Clean(v),
                    data |-> [span |-> v.f["spanId"].n, at |-> ends, duration |-> ends - starts]]
  <2>1. SpanVisit(v, context).yield = <<r>>
    BY <1>2 DEF SpanVisit, Visit, NewRecord
  <2>2. ends \in Int /\ starts \in Int /\ 0 <= starts /\ starts <= ends
    BY <1>2 DEF Span, Unsigned
  <2>3. ends - starts \in 0 .. ends
    <3>. HIDE DEF ends, starts
    <3>. QED BY <2>2
  <2>4. DOMAIN r.data = {"span", "at", "duration"}
    OBVIOUS
  <2>5. (r.resource \cup r.scope \cup r.attributes) \cap Sensitive = {}
    BY DEF Uncredentialled, Clean
  <2>6. r.data.duration \in 0 .. r.data.at
    BY <2>3
  <2>. HIDE DEF r
  <2>7. SoundRecord(r)
    BY <2>4, <2>5, <2>6 DEF SoundRecord
  <2>. QED BY <2>1, <2>7 DEF SoundVisit
<1>. QED BY <1>1, <1>2

LEMMA LogSound ==
  ASSUME NEW v, NEW context, Uncredentialled(context)
  PROVE  SoundVisit(LogVisit(v, context))
<1>1. CASE ~LogRecord(v)
  BY <1>1 DEF LogVisit, Refused, Visit, SoundVisit
<1>2. CASE LogRecord(v)
  <2>. DEFINE trace == IF Has(v, "traceId") THEN v.f["traceId"].n ELSE 0
              span == IF Has(v, "spanId") THEN v.f["spanId"].n ELSE 0
              r == [resource |-> context.resource, scope |-> context.scope, attributes |-> Clean(v),
                    data |-> [at |-> v.f["timeUnixNano"].n, trace |-> trace, span |-> span]]
  <2>1. LogVisit(v, context).yield = <<r>>
    BY <1>2 DEF LogVisit, Visit, NewRecord
  <2>2. Has(v, "spanId") => Has(v, "traceId")
    BY <1>2 DEF LogRecord, Optional
  <2>3. Has(v, "traceId") => v.f["traceId"].n > 0
    BY <1>2 DEF LogRecord, Optional, Hex
  <2>4. span > 0 => trace > 0
    BY <2>2, <2>3
  <2>5. DOMAIN r.data = {"at", "trace", "span"} /\ r.data.trace = trace /\ r.data.span = span
    OBVIOUS
  <2>6. (r.resource \cup r.scope \cup r.attributes) \cap Sensitive = {}
    BY DEF Uncredentialled, Clean
  <2>. HIDE DEF r, trace, span
  <2>7. SoundRecord(r)
    BY <2>4, <2>5, <2>6 DEF SoundRecord
  <2>. QED BY <2>1, <2>7 DEF SoundVisit
<1>. QED BY <1>1, <1>2

LEMMA NumberSound ==
  ASSUME NEW v, NEW context, Uncredentialled(context)
  PROVE  SoundVisit(NumberVisit(v, context))
<1>1. CASE ~NumberPoint(v)
  BY <1>1 DEF NumberVisit, Refused, Visit, SoundVisit
<1>2. CASE NumberPoint(v)
  <2>. DEFINE value == IF Has(v, "asInt") THEN v.f["asInt"].n ELSE v.f["asDouble"].n
              r == [resource |-> context.resource, scope |-> context.scope, attributes |-> Clean(v),
                    data |-> [at |-> v.f["timeUnixNano"].n, value |-> value]]
  <2>1. NumberVisit(v, context).yield = <<r>>
    BY <1>2 DEF NumberVisit, Visit, NewRecord
  <2>2. DOMAIN r.data = {"at", "value"}
    OBVIOUS
  <2>3. (r.resource \cup r.scope \cup r.attributes) \cap Sensitive = {}
    BY DEF Uncredentialled, Clean
  <2>. HIDE DEF r, value
  <2>4. SoundRecord(r)
    BY <2>2, <2>3 DEF SoundRecord
  <2>. QED BY <2>1, <2>4 DEF SoundVisit
<1>. QED BY <1>1, <1>2

\* The cumulative counts of a histogram are read up to its last bucket, which is one more than
\* its bounds: all of the counts that the parser has added up.
LEMMA HistogramSound ==
  ASSUME NEW v \in Nodes, NEW context, Uncredentialled(context)
  PROVE  SoundVisit(HistogramVisit(v, context))
<1>1. CASE ~HistogramPoint(v)
  BY <1>1 DEF HistogramVisit, Refused, Visit, SoundVisit
<1>2. CASE HistogramPoint(v)
  <2>. DEFINE counts == v.f["bucketCounts"]
              limits == v.f["explicitBounds"]
              total == v.f["count"].n
              r == [resource |-> context.resource, scope |-> context.scope, attributes |-> Clean(v),
                    data |-> [at |-> v.f["timeUnixNano"].n, count |-> total,
                              buckets |-> Numbers(counts), bounds |-> Numbers(limits)]]
  <2>1. HistogramVisit(v, context).yield = <<r>>
    BY <1>2 DEF HistogramVisit, Visit, NewRecord
  <2>2. counts \in Nodes /\ limits \in Nodes
    BY <1>2, NodeParts DEF HistogramPoint, Fields
  <2>3. /\ Len(counts.e) = Len(limits.e) + 1
        /\ \A i \in 1 .. Len(limits.e) - 1 : limits.e[i].n < limits.e[i + 1].n
        /\ Total(Numbers(counts)) = total
        /\ total <= MaxUnsigned
    BY <1>2 DEF HistogramPoint, HistogramCounts, Unsigned
  <2>4. /\ Numbers(counts) \in Seq(Int) /\ Len(Numbers(counts)) = Len(counts.e)
        /\ Numbers(limits) \in Seq(Int) /\ Len(Numbers(limits)) = Len(limits.e)
        /\ \A i \in 1 .. Len(limits.e) : Numbers(limits)[i] = limits.e[i].n
    <3>. SUFFICES ASSUME NEW node \in Nodes
                  PROVE  /\ Numbers(node) \in Seq(Int) /\ Len(Numbers(node)) = Len(node.e)
                         /\ \A i \in 1 .. Len(node.e) : Numbers(node)[i] = node.e[i].n
      BY <2>2
    <3>1. node.e \in Seq(Nodes) /\ Len(node.e) \in Nat /\ DOMAIN node.e = 1 .. Len(node.e)
      BY NodeParts, LenProperties
    <3>2. \A i \in 1 .. Len(node.e) : node.e[i].n \in Int
      BY NodeParts
    <3>3. Numbers(node) = [i \in 1 .. Len(node.e) |-> node.e[i].n]
      BY <3>1 DEF Numbers
    <3>. QED BY <3>1, <3>2, <3>3, IsASeq, LenProperties
  <2>5. Len(counts.e) \in Nat /\ Len(limits.e) \in Nat
    BY <2>2, NodeParts, LenProperties
  <2>6. SubSeq(Numbers(counts), 1, Len(Numbers(limits)) + 1) = Numbers(counts)
    BY <2>3, <2>4, SubSeqFull
  <2>7. ASSUME NEW i \in 1 .. Len(Numbers(limits)) - 1
        PROVE  Numbers(limits)[i] < Numbers(limits)[i + 1]
    <3>1. i \in 1 .. Len(limits.e) /\ i + 1 \in 1 .. Len(limits.e) /\ i \in 1 .. Len(limits.e) - 1
      BY <2>4, <2>5
    <3>. QED BY <2>3, <2>4, <3>1
  <2>8. /\ DOMAIN r.data = {"at", "count", "buckets", "bounds"}
        /\ r.data.buckets = Numbers(counts) /\ r.data.bounds = Numbers(limits) /\ r.data.count = total
    OBVIOUS
  <2>9. (r.resource \cup r.scope \cup r.attributes) \cap Sensitive = {}
    BY DEF Uncredentialled, Clean
  <2>. HIDE DEF r, counts, limits, total
  <2>10. SoundRecord(r)
    BY <2>3, <2>6, <2>7, <2>8, <2>9 DEF SoundRecord
  <2>. QED BY <2>1, <2>10 DEF SoundVisit
<1>. QED BY <1>1, <1>2

\* The groups and items above a place are accepted nodes of the body.
LEMMA NodesAbove ==
  ASSUME NEW root \in Nodes, Export(root), NEW x, Quadruple(x), IsPlace(root, x)
  PROVE  /\ SignalOf(root) \in Signals
         /\ x[4] > 0 => PointsOf(ItemsOf(root, x[1], x[2]).e[x[3]]).e[x[4]] \in Nodes
<1>. DEFINE signal == SignalOf(root)
<1>1. signal \in Signals /\ signal \in DOMAIN root.f
  <2>1. DOMAIN root.f # {}
    BY FS_EmptySet DEF Export
  <2>2. \E k \in Signals : Has(root, k)
    BY <2>1 DEF Export, Has
  <2>. QED BY <2>2 DEF SignalOf, Has
<1>2. ASSUME x[4] > 0 PROVE PointsOf(ItemsOf(root, x[1], x[2]).e[x[3]]).e[x[4]] \in Nodes
  <2>. DEFINE group == GroupsOf(root).e[x[1]]
              scope == ScopesOf(root, x[1]).e[x[2]]
              item == ItemsOf(root, x[1], x[2]).e[x[3]]
  <2>0. x[1] \in Nat /\ x[2] \in Nat /\ x[3] \in Nat /\ x[4] \in Nat
    BY DEF Quadruple
  <2>1. /\ x[1] > 0 /\ x[2] > 0 /\ x[3] > 0
        /\ x[1] <= Len(GroupsOf(root).e) /\ x[2] <= Len(ScopesOf(root, x[1]).e)
        /\ x[3] <= Len(ItemsOf(root, x[1], x[2]).e) /\ x[4] <= Len(PointsOf(item).e)
        /\ VisitAt(root, <<x[1], 0, 0, 0>>).ok /\ VisitAt(root, <<x[1], x[2], 0, 0>>).ok
        /\ VisitAt(root, <<x[1], x[2], x[3], 0>>).ok
        /\ signal = "resourceMetrics"
    BY <1>2, <2>0 DEF IsPlace
  <2>2. GroupsOf(root) \in Nodes
    BY <1>1, NodeParts, NodesAssumption DEF GroupsOf
  <2>3. group \in Nodes
    BY <2>0, <2>1, <2>2, NodeParts
  <2>4. Scopes[signal] \in DOMAIN group.f
    <3>1. VisitAt(root, <<x[1], 0, 0, 0>>) = GroupVisit(group, Scopes[signal], "resource", Resource, MaxScopes)
      BY <2>0, <2>1 DEF VisitAt
    <3>. QED BY <2>1, <3>1 DEF GroupVisit, Refused, Visit, Envelope, Fields
  <2>5. ScopesOf(root, x[1]) \in Nodes
    BY <2>3, <2>4, NodeParts DEF ScopesOf
  <2>6. scope \in Nodes
    BY <2>0, <2>1, <2>5, NodeParts
  <2>7. Items[signal] \in DOMAIN scope.f
    <3>1. VisitAt(root, <<x[1], x[2], 0, 0>>)
            = GroupVisit(scope, Items[signal], "scope", InstrumentationScope, MaxRecords)
      BY <2>0, <2>1 DEF VisitAt
    <3>. QED BY <2>1, <3>1 DEF GroupVisit, Refused, Visit, Envelope, Fields
  <2>8. ItemsOf(root, x[1], x[2]) \in Nodes
    BY <2>6, <2>7, NodeParts DEF ItemsOf
  <2>9. item \in Nodes
    BY <2>0, <2>1, <2>8, NodeParts
  <2>10. Metric(item)
    <3>1. VisitAt(root, <<x[1], x[2], x[3], 0>>).ok = MetricVisit(item).ok
      BY <2>0, <2>1 DEF VisitAt, ItemVisit
    <3>. QED BY <2>1, <3>1 DEF MetricVisit, Refused, Visit
  <2>11. PointsOf(item) \in Nodes
    <3>. DEFINE kinds == {"gauge", "sum", "histogram"}
    <3>1. DOMAIN item.f \cap kinds # {}
      BY <2>10, FS_EmptySet DEF Metric
    <3>2. MetricKind(item) \in kinds /\ MetricKind(item) \in DOMAIN item.f
      BY <3>1 DEF MetricKind, Has
    <3>3. "dataPoints" \in DOMAIN item.f[MetricKind(item)].f
      <4>1. CASE MetricKind(item) = "gauge"
        BY <2>10, <3>2, <4>1 DEF Metric, Optional, Has, Fields
      <4>2. CASE MetricKind(item) = "sum"
        BY <2>10, <3>2, <4>2 DEF Metric, Optional, Has, Fields
      <4>3. CASE MetricKind(item) = "histogram"
        BY <2>10, <3>2, <4>3 DEF Metric, Optional, Has, Fields
      <4>. QED BY <3>2, <4>1, <4>2, <4>3
    <3>4. item.f[MetricKind(item)] \in Nodes
      BY <2>9, <3>2, NodeParts
    <3>. DEFINE kind == item.f[MetricKind(item)]
    <3>5. PointsOf(item) = kind.f["dataPoints"]
      BY DEF PointsOf
    <3>. HIDE DEF kind
    <3>6. kind \in Nodes /\ "dataPoints" \in DOMAIN kind.f
      BY <3>3, <3>4 DEF kind
    <3>7. \A name \in DOMAIN kind.f : kind.f[name] \in Nodes
      BY <3>6, NodeParts
    <3>. QED BY <3>5, <3>6, <3>7
  <2>12. x[4] \in 1 .. Len(PointsOf(item).e)
    BY <1>2, <2>0, <2>1
  <2>13. \A i \in 1 .. Len(PointsOf(item).e) : PointsOf(item).e[i] \in Nodes
    BY <2>11, NodeParts
  <2>. QED BY <2>12, <2>13
<1>. QED BY <1>1, <1>2

LEMMA VisitsAreSound ==
  ASSUME NEW root \in Nodes, Export(root), NEW x \in DOMAIN Visits(root)
  PROVE  SoundVisit(Visits(root)[x])
<1>. DEFINE signal == SignalOf(root)
            group == GroupsOf(root).e[x[1]]
            scope == ScopesOf(root, x[1]).e[x[2]]
            item == ItemsOf(root, x[1], x[2]).e[x[3]]
            point == PointsOf(item).e[x[4]]
            context == [resource |-> Kept(group, "resource"), scope |-> Kept(scope, "scope")]
<1>1. x \in Places /\ IsPlace(root, x) /\ Visits(root)[x] = VisitAt(root, x)
  BY DEF Visits
<1>2. Quadruple(x)
  BY <1>1, PlaceTypes
<1>3. x[1] \in Nat /\ x[2] \in Nat /\ x[3] \in Nat /\ x[4] \in Nat
  BY <1>2 DEF Quadruple
<1>4. signal \in Signals
  BY <1>1, <1>2, NodesAbove
<1>5. Uncredentialled(context)
  BY KeptUncredentialled
<1>6. SoundVisit(Refused) /\ \A keys : SoundVisit(Opened(keys))
  BY DEF SoundVisit, Refused, Opened, Visit
<1>7. CASE x[1] = 0
  <2>1. x[2] = 0 /\ x[3] = 0 /\ x[4] = 0
    BY <1>1, <1>3, <1>7 DEF IsPlace
  <2>2. VisitAt(root, x) = IF List(GroupsOf(root), MaxResources) THEN Opened({}) ELSE Refused
    BY <1>7, <2>1 DEF VisitAt
  <2>. QED BY <1>1, <1>6, <2>2
<1>8. CASE x[1] > 0 /\ x[2] = 0
  <2>1. x[3] = 0 /\ x[4] = 0
    BY <1>1, <1>3, <1>8 DEF IsPlace
  <2>2. VisitAt(root, x) = GroupVisit(group, Scopes[signal], "resource", Resource, MaxScopes)
    BY <1>3, <1>8, <2>1 DEF VisitAt
  <2>. QED BY <1>1, <1>6, <2>2 DEF GroupVisit
<1>9. CASE x[2] > 0 /\ x[3] = 0
  <2>1. x[1] > 0 /\ x[4] = 0
    BY <1>1, <1>3, <1>9 DEF IsPlace
  <2>2. VisitAt(root, x) = GroupVisit(scope, Items[signal], "scope", InstrumentationScope, MaxRecords)
    BY <1>3, <1>9, <2>1 DEF VisitAt
  <2>. QED BY <1>1, <1>6, <2>2 DEF GroupVisit
<1>10. CASE x[3] > 0 /\ x[4] = 0
  <2>1. x[1] > 0 /\ x[2] > 0
    BY <1>1, <1>3, <1>10 DEF IsPlace
  <2>2. VisitAt(root, x) = ItemVisit(signal, item, context)
    BY <1>3, <1>10, <2>1 DEF VisitAt
  <2>3. signal \in {"resourceSpans", "resourceLogs", "resourceMetrics"}
    BY <1>4 DEF Signals, Scopes
  <2>4. SoundVisit(MetricVisit(item))
    BY <1>6 DEF MetricVisit
  <2>. HIDE DEF context, item, signal
  <2>5. SoundVisit(ItemVisit(signal, item, context))
    BY <1>5, <2>3, <2>4, SpanSound, LogSound DEF ItemVisit
  <2>. QED BY <1>1, <2>2, <2>5
<1>11. CASE x[4] > 0
  <2>1. x[1] > 0 /\ x[2] > 0 /\ x[3] > 0
    BY <1>1, <1>3, <1>11 DEF IsPlace
  <2>2. VisitAt(root, x) = PointVisit(item, point, context)
    BY <1>3, <1>11, <2>1 DEF VisitAt
  <2>3. point \in Nodes
    BY <1>1, <1>2, <1>11, NodesAbove
  <2>. HIDE DEF context, item, point
  <2>4. SoundVisit(PointVisit(item, point, context))
    BY <1>5, <2>3, HistogramSound, NumberSound DEF PointVisit
  <2>. QED BY <1>1, <2>2, <2>4
<1>. QED BY <1>3, <1>7, <1>8, <1>9, <1>10, <1>11

-----------------------------------------------------------------------------
(* A call that parses has taken the first places of its body.  The records are those that the
   places yield which it has taken, in their order, and so many that they keep to the limit. *)

Walked(root, left, recs, keys) ==
  LET visits == Visits(root)
      taken == DOMAIN visits \ left
      count == Cardinality(taken \cap Yielding(visits))
  IN  /\ left \subseteq DOMAIN visits
      /\ \A x \in taken : visits[x].ok /\ \A y \in left : Precedes(x, y)
      /\ recs = RecordsOf(visits, Yielding(visits), count) /\ count <= MaxRecords
      /\ keys = UNION {visits[x].removed : x \in taken}
      /\ \A i \in DOMAIN recs : SoundRecord(recs[i])

CallsTyped ==
  /\ body \in [Call -> Body]
  /\ turn \in [Call -> {"new", "parsing", "done"}]
  /\ todo = [c \in Call |-> todo[c]] /\ returned = [c \in Call |-> returned[c]]
OneParses ==
  \A c \in Call : /\ turn[c] = "parsing" <=> owner = c
                  /\ turn[c] # "done" => returned[c] = Refusal
Midway ==
  \A c \in Call : turn[c] = "parsing" =>
    /\ Export(Decoded[body[c]])
    /\ todo[c] = Restrict(Visits(Decoded[body[c]]), DOMAIN todo[c])
    /\ Walked(Decoded[body[c]], DOMAIN todo[c], records, stripped)
OtlpInv == CallsTyped /\ OneParses /\ Midway /\ OtlpSound

LEMMA YieldingPlaces ==
  ASSUME NEW root
  PROVE  /\ DOMAIN Visits(root) \subseteq Places /\ Yielding(Visits(root)) \subseteq DOMAIN Visits(root)
         /\ \A x \in DOMAIN Visits(root) : Quadruple(x)
         /\ \A S \in SUBSET DOMAIN Visits(root) : IsFiniteSet(S) /\ Cardinality(S) \in Nat
<1>1. DOMAIN Visits(root) \subseteq Places /\ Yielding(Visits(root)) \subseteq DOMAIN Visits(root)
  BY DEF Visits, Yielding
<1>2. ASSUME NEW S \in SUBSET DOMAIN Visits(root) PROVE IsFiniteSet(S) /\ Cardinality(S) \in Nat
  <2>1. IsFiniteSet(S)
    BY <1>1, PlacesFinite, FS_Subset
  <2>. QED BY <2>1, FS_CardinalityType
<1>. QED BY <1>1, <1>2, PlaceTypes

\* A later place has a greater rank.
LEMMA RankRises ==
  ASSUME NEW S, IsFiniteSet(S), \A x \in S : Quadruple(x),
         NEW x \in S, NEW y \in S, Precedes(x, y)
  PROVE  Rank(S, x) < Rank(S, y)
<1>. DEFINE before == {z \in S : ~Precedes(x, z)}
            beyond == {z \in S : ~Precedes(y, z)}
<1>1. before \subseteq beyond
  <2>. SUFFICES ASSUME NEW z \in S, Precedes(y, z) PROVE Precedes(x, z)
    OBVIOUS
  <2>. QED BY OrderIsStrict
<1>2. y \in beyond /\ y \notin before
  BY OrderIsStrict
<1>3. IsFiniteSet(beyond) /\ IsFiniteSet(before)
  BY FS_Subset
<1>4. Cardinality(beyond) \in Nat /\ Cardinality(before) \in Nat
  BY <1>3, FS_CardinalityType
<1>5. Cardinality(before) <= Cardinality(beyond) /\ Cardinality(before) # Cardinality(beyond)
  <2>. HIDE DEF before, beyond
  <2>. QED BY <1>1, <1>2, <1>3, FS_Subset
<1>6. Rank(S, x) = Cardinality(before) /\ Rank(S, y) = Cardinality(beyond)
  BY DEF Rank
<1>. QED BY <1>4, <1>5, <1>6

\* The place after the first ones has the rank after theirs, and no other has it.
LEMMA RankCounts ==
  ASSUME NEW S, IsFiniteSet(S), \A x \in S : Quadruple(x),
         NEW first \in SUBSET S, NEW x \in S \ first,
         \A y \in first : Precedes(y, x), \A y \in S \ (first \cup {x}) : Precedes(x, y)
  PROVE  \A z \in S : Rank(S, z) = Cardinality(first) + 1 <=> z = x
<1>1. {y \in S : ~Precedes(x, y)} = first \cup {x}
  BY OrderIsStrict
<1>2. Rank(S, x) = Cardinality(first) + 1
  <2>1. IsFiniteSet(first)
    BY FS_Subset
  <2>. QED BY <1>1, <2>1, FS_AddElement DEF Rank
<1>3. ASSUME NEW z \in S, z # x PROVE Rank(S, z) # Rank(S, x)
  <2>1. Precedes(x, z) \/ Precedes(z, x)
    BY <1>3, OrderIsTotal
  <2>2. Rank(S, z) \in Nat /\ Rank(S, x) \in Nat
    <3>1. \A y : IsFiniteSet({u \in S : ~Precedes(y, u)})
      BY FS_Subset
    <3>. QED BY <3>1, FS_CardinalityType DEF Rank
  <2>3. Rank(S, x) < Rank(S, z) \/ Rank(S, z) < Rank(S, x)
    BY <2>1, RankRises
  <2>. QED BY <2>2, <2>3
<1>. QED BY <1>2, <1>3

LEMMA WalkBegins ==
  ASSUME NEW root \in Nodes
  PROVE  Walked(root, DOMAIN Visits(root), <<>>, {})
<1>1. DOMAIN Visits(root) \ DOMAIN Visits(root) = {}
  OBVIOUS
<1>2. Cardinality({} \cap Yielding(Visits(root))) = 0
  BY FS_EmptySet
<1>3. RecordsOf(Visits(root), Yielding(Visits(root)), 0) = <<>>
  BY DEF RecordsOf
<1>4. 0 <= MaxRecords
  BY LimitsAssumption
<1>. QED BY <1>1, <1>2, <1>3, <1>4 DEF Walked

LEMMA WalkGoesOn ==
  ASSUME NEW root \in Nodes, Export(root), NEW left, NEW recs, NEW keys, Walked(root, left, recs, keys),
         NEW x \in Nearest(left), Visits(root)[x].ok,
         Visits(root)[x].yield = <<>> \/ Len(recs) < MaxRecords
  PROVE  Walked(root, left \ {x}, recs \o Visits(root)[x].yield, keys \cup Visits(root)[x].removed)
<1>. DEFINE visits == Visits(root)
            yielding == Yielding(visits)
            taken == DOMAIN visits \ left
            now == DOMAIN visits \ (left \ {x})
            count == Cardinality(taken \cap yielding)
<1>. HIDE DEF visits
<1>1. /\ left \subseteq DOMAIN visits /\ x \in left
      /\ \A y \in taken : visits[y].ok /\ \A z \in left : Precedes(y, z)
      /\ recs = RecordsOf(visits, yielding, count) /\ count <= MaxRecords
      /\ keys = UNION {visits[y].removed : y \in taken}
      /\ \A i \in DOMAIN recs : SoundRecord(recs[i])
  BY DEF Walked, Nearest, visits
<1>2. now = taken \cup {x} /\ x \notin taken
  BY <1>1
<1>3. yielding \subseteq DOMAIN visits /\ count \in Nat /\ \A y \in DOMAIN visits : Quadruple(y)
  BY YieldingPlaces DEF visits
<1>4. \A y \in left \ {x} : Precedes(x, y)
  BY <1>1, <1>3, OrderIsTotal DEF Nearest
<1>5. \A y \in now : visits[y].ok /\ \A z \in left \ {x} : Precedes(y, z)
  BY <1>1, <1>2, <1>4 DEF visits
<1>6. keys \cup visits[x].removed = UNION {visits[y].removed : y \in now}
  BY <1>1, <1>2
<1>7. recs \in Seq({recs[i] : i \in DOMAIN recs}) /\ Len(recs) = count /\ DOMAIN recs = 1 .. count
  <2>1. DOMAIN recs = 1 .. count /\ recs = [i \in 1 .. count |-> recs[i]]
    BY <1>1 DEF RecordsOf
  <2>. DEFINE T == {recs[i] : i \in DOMAIN recs}
  <2>2. recs \in Seq(T)
    <3>1. \A i \in 1 .. count : recs[i] \in T
      BY <2>1
    <3>. HIDE DEF T, count
    <3>. QED BY <2>1, <3>1, <1>3, IsASeq
  <2>3. Len(recs) \in Nat /\ DOMAIN recs = 1 .. Len(recs)
    BY <2>2, LenProperties
  <2>4. Len(recs) = count
    <3>. HIDE DEF count
    <3>. QED BY <1>3, <2>1, <2>3
  <2>. QED BY <2>1, <2>2, <2>4
<1>8. CASE visits[x].yield = <<>>
  <2>1. now \cap yielding = taken \cap yielding
    BY <1>2, <1>8 DEF Yielding
  <2>2. recs \o visits[x].yield = recs
    BY <1>7, <1>8, ConcatEmptySeq
  <2>. QED BY <1>1, <1>5, <1>6, <2>1, <2>2 DEF Walked, visits
<1>9. ASSUME NEW r, visits[x].yield = <<r>>, SoundRecord(r)
      PROVE  Walked(root, left \ {x}, recs \o <<r>>, keys \cup visits[x].removed)
  <2>. DEFINE first == taken \cap yielding
              longer == RecordsOf(visits, yielding, count + 1)
  <2>1. x \in yielding \ first
    BY <1>1, <1>2, <1>9 DEF Yielding
  <2>2. now \cap yielding = first \cup {x}
    BY <1>2, <2>1
  <2>3. IsFiniteSet(first) /\ IsFiniteSet(yielding)
    BY <1>3, YieldingPlaces DEF visits
  <2>4. Cardinality(now \cap yielding) = count + 1
    BY <2>1, <2>2, <2>3, FS_AddElement
  <2>5. count + 1 <= MaxRecords
    <3>1. count < MaxRecords
      BY <1>7, <1>9 DEF visits
    <3>. QED BY <1>3, <3>1, LimitsAssumption
  <2>6. \A y \in first : Precedes(y, x)
    BY <1>1
  <2>7. \A y \in yielding \ (first \cup {x}) : Precedes(x, y)
    BY <1>3, <1>4
  <2>8. \A z \in yielding : Rank(yielding, z) = count + 1 <=> z = x
    <3>. HIDE DEF yielding, taken
    <3>. QED BY <1>3, <2>1, <2>3, <2>6, <2>7, RankCounts
  <2>9. /\ longer = recs \o <<r>>
        /\ longer[count + 1] = r /\ \A i \in 1 .. count : longer[i] = recs[i]
    <3>1. (CHOOSE z \in yielding : Rank(yielding, z) = count + 1) = x
      BY <2>1, <2>8
    <3>. HIDE DEF count, yielding
    <3>2. \A i \in 1 .. count : longer[i] = recs[i]
      <4>1. \A i \in 1 .. count : i \in 1 .. count + 1
        BY <1>3
      <4>. QED BY <1>1, <4>1 DEF RecordsOf
    <3>3. longer[count + 1] = r /\ DOMAIN longer = 1 .. count + 1
      <4>1. count + 1 \in 1 .. count + 1
        BY <1>3
      <4>2. longer[count + 1]
              = visits[CHOOSE z \in yielding : Rank(yielding, z) = count + 1].yield[1]
        BY <4>1 DEF RecordsOf
      <4>3. visits[x].yield[1] = r
        BY <1>9
      <4>4. DOMAIN longer = 1 .. count + 1
        BY DEF RecordsOf
      <4>. HIDE DEF longer
      <4>. QED BY <3>1, <4>2, <4>3, <4>4
    <3>4. longer = [i \in 1 .. count + 1 |-> longer[i]]
      BY DEF RecordsOf
    <3>5. /\ DOMAIN (recs \o <<r>>) = 1 .. count + 1
          /\ \A i \in 1 .. count : (recs \o <<r>>)[i] = recs[i]
          /\ (recs \o <<r>>)[count + 1] = r
          /\ recs \o <<r>> = [i \in 1 .. count + 1 |-> (recs \o <<r>>)[i]]
      <4>. DEFINE T == {recs[i] : i \in DOMAIN recs} \cup {r}
      <4>1. recs \in Seq(T) /\ <<r>> \in Seq(T)
        BY <1>7, SeqMonotonic
      <4>. HIDE DEF T
      <4>2. Len(<<r>>) = 1 /\ <<r>>[1] = r
        OBVIOUS
      <4>3. recs \o <<r>> \in Seq(T) /\ Len(recs \o <<r>>) = count + 1
        BY <1>7, <4>1, <4>2, ConcatProperties
      <4>4. \A i \in 1 .. count + 1 :
              (recs \o <<r>>)[i] = IF i <= count THEN recs[i] ELSE <<r>>[i - count]
        BY <1>7, <4>1, <4>2, ConcatProperties
      <4>5. recs \o <<r>> = [i \in 1 .. count + 1 |-> (recs \o <<r>>)[i]]
        BY <4>3, LenProperties
      <4>6. DOMAIN (recs \o <<r>>) = 1 .. count + 1
        BY <4>5
      <4>7. ASSUME NEW i \in 1 .. count PROVE (recs \o <<r>>)[i] = recs[i]
        <5>1. i \in 1 .. count + 1 /\ i <= count
          BY <1>3
        <5>. QED BY <4>4, <5>1
      <4>8. (recs \o <<r>>)[count + 1] = r
        <5>1. count + 1 \in 1 .. count + 1 /\ ~(count + 1 <= count) /\ (count + 1) - count = 1
          BY <1>3
        <5>2. (recs \o <<r>>)[count + 1] = <<r>>[(count + 1) - count]
          BY <4>4, <5>1
        <5>. QED BY <5>1, <5>2, <4>2
      <4>. QED BY <4>5, <4>6, <4>7, <4>8
    <3>. HIDE DEF longer
    <3>6. ASSUME NEW i \in 1 .. count + 1 PROVE longer[i] = (recs \o <<r>>)[i]
      <4>1. i = count + 1 \/ i \in 1 .. count
        BY <1>3
      <4>. QED BY <3>2, <3>3, <3>5, <4>1
    <3>. DEFINE joined == recs \o <<r>>
    <3>. HIDE DEF joined
    <3>7. joined = [i \in 1 .. count + 1 |-> joined[i]]
      BY <3>5 DEF joined
    <3>8. longer = joined
      BY <3>4, <3>6, <3>7 DEF joined
    <3>. QED BY <3>2, <3>3, <3>8 DEF joined
  <2>10. \A i \in DOMAIN longer : SoundRecord(longer[i])
    <3>1. DOMAIN longer = 1 .. count + 1
      BY DEF RecordsOf
    <3>. HIDE DEF longer, count
    <3>2. \A i \in 1 .. count + 1 : i = count + 1 \/ i \in 1 .. count
      BY <1>3
    <3>. QED BY <1>1, <1>7, <1>9, <2>9, <3>1, <3>2
  <2>. HIDE DEF longer, count
  <2>. QED BY <1>1, <1>5, <1>6, <2>4, <2>5, <2>9, <2>10 DEF Walked, visits, longer
<1>10. visits[x].yield = <<>> \/ \E r : visits[x].yield = <<r>> /\ SoundRecord(r)
  BY <1>1, VisitsAreSound DEF SoundVisit, visits
<1>. QED BY <1>8, <1>9, <1>10 DEF visits

LEMMA WalkEnds ==
  ASSUME NEW root \in Nodes, Export(root), NEW recs, NEW keys, Walked(root, {}, recs, keys)
  PROVE  Deserved(root) = IF recs = <<>> THEN Refusal ELSE Batch(recs, keys)
<1>. DEFINE visits == Visits(root)
            yielding == Yielding(visits)
            count == Cardinality(yielding)
<1>. HIDE DEF visits
<1>1. DOMAIN visits \ {} = DOMAIN visits /\ DOMAIN visits \cap yielding = yielding
  BY DEF Yielding
<1>2. /\ \A x \in DOMAIN visits : visits[x].ok
      /\ recs = RecordsOf(visits, yielding, count) /\ count <= MaxRecords
      /\ keys = UNION {visits[x].removed : x \in DOMAIN visits}
  BY <1>1 DEF Walked, visits
<1>3. count \in Nat
  BY <1>1, YieldingPlaces DEF visits
<1>. HIDE DEF yielding, count
<1>4. Deserved(root) = IF count \in 1 .. MaxRecords THEN Batch(recs, keys) ELSE Refusal
  BY <1>2 DEF Deserved, visits, yielding, count
<1>5. recs = <<>> <=> count = 0
  <2>1. DOMAIN recs = 1 .. count
    BY <1>2 DEF RecordsOf
  <2>2. count = 0 => recs = <<>>
    BY <1>2 DEF RecordsOf
  <2>3. recs = <<>> => 1 .. count = {}
    BY <2>1
  <2>. QED BY <1>3, <2>2, <2>3
<1>6. count \in 1 .. MaxRecords <=> count # 0
  BY <1>2, <1>3, LimitsAssumption
<1>. QED BY <1>4, <1>5, <1>6

LEMMA WalkFails ==
  ASSUME NEW root, NEW left, NEW recs, NEW keys, Walked(root, left, recs, keys),
         NEW x \in left,
         ~(Visits(root)[x].ok /\ (Visits(root)[x].yield = <<>> \/ Len(recs) < MaxRecords))
  PROVE  Deserved(root) = Refusal
<1>. DEFINE visits == Visits(root)
            yielding == Yielding(visits)
            taken == DOMAIN visits \ left
            count == Cardinality(taken \cap yielding)
<1>. HIDE DEF visits
<1>1. left \subseteq DOMAIN visits /\ recs = RecordsOf(visits, yielding, count) /\ count \in Nat
  BY YieldingPlaces DEF Walked, visits
<1>2. CASE ~visits[x].ok
  BY <1>1, <1>2 DEF Deserved, visits
<1>3. CASE visits[x].yield # <<>> /\ ~(Len(recs) < MaxRecords)
  <2>1. Len(recs) = count
    <3>. HIDE DEF count
    <3>1. DOMAIN recs = 1 .. count /\ recs = [i \in 1 .. count |-> recs[i]]
      BY <1>1 DEF RecordsOf
    <3>2. recs \in Seq({recs[i] : i \in 1 .. count})
      BY <1>1, <3>1, IsASeq
    <3>3. Len(recs) \in Nat /\ DOMAIN recs = 1 .. Len(recs)
      BY <3>2, LenProperties
    <3>. QED BY <1>1, <3>1, <3>3
  <2>2. x \in yielding /\ x \notin taken
    BY <1>1, <1>3 DEF Yielding
  <2>. DEFINE first == taken \cap yielding
  <2>3. first \subseteq yielding /\ IsFiniteSet(yielding) /\ Cardinality(yielding) \in Nat
    BY YieldingPlaces DEF visits
  <2>4. count <= Cardinality(yielding) /\ count # Cardinality(yielding)
    <3>1. first # yielding
      BY <2>2
    <3>. HIDE DEF first
    <3>2. Cardinality(first) <= Cardinality(yielding) /\ Cardinality(yielding) # Cardinality(first)
      BY <2>3, <3>1, FS_Subset
    <3>. QED BY <3>2 DEF first
  <2>. HIDE DEF count, yielding
  <2>5. ~(Cardinality(yielding) \in 1 .. MaxRecords)
    BY <1>1, <1>3, <2>1, <2>3, <2>4, LimitsAssumption
  <2>. QED BY <2>5 DEF Deserved, visits, yielding
<1>. QED BY <1>2, <1>3 DEF visits

-----------------------------------------------------------------------------
(* The calls. *)

LEMMA OtlpBegins == OtlpInit => OtlpInv
<1>. SUFFICES ASSUME OtlpInit PROVE OtlpInv
  OBVIOUS
<1>1. CallsTyped
  BY DEF OtlpInit, CallsTyped
<1>2. OneParses
  BY LockAssumption DEF OtlpInit, OneParses
<1>3. Midway
  BY DEF OtlpInit, Midway
<1>4. OtlpSound
  BY DEF OtlpInit, OtlpSound, AnswersAreOwn, RecordsSound, Refusal
<1>. QED BY <1>1, <1>2, <1>3, <1>4 DEF OtlpInv

\* A call that is answered what it deserves leaves the others as they were.
LEMMA LeaveKeeps ==
  ASSUME OtlpInv, NEW c \in Call, NEW given, Leave(c, given), UNCHANGED <<body, todo, records, stripped>>,
         owner \in {c, Nobody}, given = Deserved(Decoded[body[c]]),
         \A i \in DOMAIN given.records : SoundRecord(given.records[i])
  PROVE  OtlpInv'
<1>1. /\ returned' = [returned EXCEPT ![c] = given] /\ turn' = [turn EXCEPT ![c] = "done"]
      /\ owner' = Nobody
  BY DEF Leave
<1>2. CallsTyped'
  BY <1>1 DEF OtlpInv, CallsTyped
<1>3. /\ returned'[c] = given /\ turn'[c] = "done"
      /\ \A d \in Call \ {c} : returned'[d] = returned[d] /\ turn'[d] = turn[d]
  BY <1>1 DEF OtlpInv, CallsTyped
<1>4. \A d \in Call : turn'[d] # "parsing"
  BY <1>3, LockAssumption DEF OtlpInv, OneParses
<1>5. OneParses'
  BY <1>1, <1>3, <1>4, LockAssumption DEF OtlpInv, OneParses
<1>6. Midway'
  BY <1>4 DEF Midway
<1>7. AnswersAreOwn'
  BY <1>3 DEF OtlpInv, OtlpSound, AnswersAreOwn
<1>8. RecordsSound'
  BY <1>3 DEF OtlpInv, OtlpSound, RecordsSound
<1>. QED BY <1>2, <1>5, <1>6, <1>7, <1>8 DEF OtlpInv, OtlpSound

LEMMA RefuseRootKeeps ==
  ASSUME OtlpInv, NEW c \in Call, RefuseRoot(c)
  PROVE  OtlpInv'
<1>1. Deserved(Decoded[body[c]]) = Refusal
  BY DEF RefuseRoot, Deserved
<1>2. DOMAIN Refusal.records = {}
  BY DEF Refusal
<1>3. owner = Nobody
  BY DEF RefuseRoot, LockFree
<1>4. Leave(c, Refusal) /\ UNCHANGED <<body, todo, records, stripped>>
  BY DEF RefuseRoot
<1>. QED BY <1>1, <1>2, <1>3, <1>4, LeaveKeeps

LEMMA EnterKeeps ==
  ASSUME OtlpInv, NEW c \in Call, Enter(c)
  PROVE  OtlpInv'
<1>1. /\ turn[c] = "new" /\ owner = Nobody /\ owner' = c
      /\ turn' = [turn EXCEPT ![c] = "parsing"]
      /\ records' = <<>> /\ stripped' = {}
      /\ todo' = [todo EXCEPT ![c] = Visits(Decoded[body[c]])]
      /\ UNCHANGED <<body, returned>>
  BY DEF Enter, LockFree, Emptied
<1>2. CallsTyped'
  BY <1>1 DEF OtlpInv, CallsTyped
<1>3. /\ turn'[c] = "parsing" /\ todo'[c] = Visits(Decoded[body[c]]) /\ body[c] \in Body
      /\ \A d \in Call \ {c} : turn'[d] = turn[d] /\ turn[d] # "parsing"
  BY <1>1, LockAssumption DEF OtlpInv, CallsTyped, OneParses
<1>4. OneParses'
  BY <1>1, <1>3 DEF OtlpInv, OneParses
<1>5. Midway'
  <2>1. Walked(Decoded[body[c]], DOMAIN Visits(Decoded[body[c]]), <<>>, {})
    BY <1>3, NodesAssumption, WalkBegins
  <2>2. Visits(Decoded[body[c]]) = Restrict(Visits(Decoded[body[c]]), DOMAIN Visits(Decoded[body[c]]))
    BY DEF Restrict, Visits
  <2>3. Export(Decoded[body[c]])
    BY DEF Enter
  <2>4. /\ Export(Decoded[body'[c]])
        /\ todo'[c] = Restrict(Visits(Decoded[body'[c]]), DOMAIN todo'[c])
        /\ Walked(Decoded[body'[c]], DOMAIN todo'[c], records', stripped')
    BY <1>1, <1>3, <2>1, <2>2, <2>3
  <2>. QED BY <1>3, <2>4 DEF Midway
<1>6. AnswersAreOwn' /\ RecordsSound'
  BY <1>1, <1>3 DEF OtlpInv, OtlpSound, AnswersAreOwn, RecordsSound
<1>. QED BY <1>2, <1>4, <1>5, <1>6 DEF OtlpInv, OtlpSound

LEMMA AcceptKeeps ==
  ASSUME OtlpInv, NEW c \in Call, Accept(c)
  PROVE  OtlpInv'
<1>1. PICK x \in Nearest(DOMAIN todo[c]) :
        /\ todo[c][x].ok /\ Fits(todo[c][x])
        /\ records' = records \o todo[c][x].yield
        /\ stripped' = stripped \cup todo[c][x].removed
        /\ todo' = [todo EXCEPT ![c] = Restrict(@, DOMAIN @ \ {x})]
  BY DEF Accept
<1>2. turn[c] = "parsing" /\ UNCHANGED <<body, turn, owner, returned>>
  BY DEF Accept
<1>3. CallsTyped'
  BY <1>1, <1>2 DEF OtlpInv, CallsTyped
<1>4. /\ Export(Decoded[body[c]]) /\ todo[c] = Restrict(Visits(Decoded[body[c]]), DOMAIN todo[c])
      /\ Walked(Decoded[body[c]], DOMAIN todo[c], records, stripped) /\ Decoded[body[c]] \in Nodes
  BY <1>2, NodesAssumption DEF OtlpInv, Midway, CallsTyped
<1>5. OneParses'
  BY <1>2 DEF OtlpInv, OneParses
<1>6. AnswersAreOwn' /\ RecordsSound'
  BY <1>2 DEF OtlpInv, OtlpSound, AnswersAreOwn, RecordsSound
<1>. DEFINE left == DOMAIN todo[c] \ {x}
<1>7. x \in DOMAIN todo[c] /\ todo[c][x] = Visits(Decoded[body[c]])[x]
  BY <1>1, <1>4 DEF Nearest, Restrict
<1>8. Visits(Decoded[body[c]])[x].ok /\ (Visits(Decoded[body[c]])[x].yield = <<>> \/ Len(records) < MaxRecords)
  BY <1>1, <1>7 DEF Fits
<1>9. Walked(Decoded[body[c]], left, records', stripped')
  BY <1>1, <1>4, <1>7, <1>8, WalkGoesOn
<1>10. todo'[c] = Restrict(Visits(Decoded[body[c]]), left) /\ DOMAIN todo'[c] = left
  <2>1. todo'[c] = Restrict(todo[c], left)
    BY <1>1, <1>3 DEF OtlpInv, CallsTyped
  <2>2. \A y \in left : todo[c][y] = Visits(Decoded[body[c]])[y]
    BY <1>4 DEF Restrict
  <2>. QED BY <2>1, <2>2 DEF Restrict
<1>11. \A d \in Call : turn[d] = "parsing" => d = c
  BY <1>2 DEF OtlpInv, OneParses
<1>12. Midway'
  BY <1>2, <1>4, <1>9, <1>10, <1>11 DEF Midway
<1>. QED BY <1>3, <1>5, <1>6, <1>12 DEF OtlpInv, OtlpSound

LEMMA RefuseKeeps ==
  ASSUME OtlpInv, NEW c \in Call, Refuse(c)
  PROVE  OtlpInv'
<1>1. PICK x \in Nearest(DOMAIN todo[c]) : ~(todo[c][x].ok /\ Fits(todo[c][x]))
  BY DEF Refuse
<1>2. turn[c] = "parsing" /\ Leave(c, Refusal) /\ UNCHANGED <<body, todo, records, stripped>>
  BY DEF Refuse
<1>3. /\ todo[c] = Restrict(Visits(Decoded[body[c]]), DOMAIN todo[c])
      /\ Walked(Decoded[body[c]], DOMAIN todo[c], records, stripped)
      /\ owner = c
  BY <1>2 DEF OtlpInv, Midway, CallsTyped, OneParses
<1>4. x \in DOMAIN todo[c] /\ todo[c][x] = Visits(Decoded[body[c]])[x]
  BY <1>1, <1>3 DEF Nearest, Restrict
<1>5. Deserved(Decoded[body[c]]) = Refusal
  BY <1>1, <1>3, <1>4, WalkFails DEF Fits
<1>6. DOMAIN Refusal.records = {}
  BY DEF Refusal
<1>. QED BY <1>2, <1>3, <1>5, <1>6, LeaveKeeps

LEMMA FinishKeeps ==
  ASSUME OtlpInv, NEW c \in Call, Finish(c)
  PROVE  OtlpInv'
<1>. DEFINE given == IF records = <<>> THEN Refusal ELSE Batch(records, stripped)
<1>1. /\ turn[c] = "parsing" /\ DOMAIN todo[c] = {} /\ Leave(c, given)
      /\ UNCHANGED <<body, todo, records, stripped>>
  BY DEF Finish
<1>2. /\ Export(Decoded[body[c]]) /\ Walked(Decoded[body[c]], {}, records, stripped)
      /\ Decoded[body[c]] \in Nodes /\ owner = c
  BY <1>1, NodesAssumption DEF OtlpInv, Midway, CallsTyped, OneParses
<1>3. Deserved(Decoded[body[c]]) = given
  BY <1>2, WalkEnds
<1>4. \A i \in DOMAIN records : SoundRecord(records[i])
  BY <1>2 DEF Walked
<1>5. \A i \in DOMAIN given.records : SoundRecord(given.records[i])
  BY <1>4 DEF Refusal, Batch
<1>. HIDE DEF given
<1>. QED BY <1>1, <1>2, <1>3, <1>5, LeaveKeeps

\* The invariant of the calls on one ingestor.
THEOREM CallsInvariance == OtlpSpec => []OtlpInv
<1>1. OtlpInv /\ [OtlpNext]_otlpVars => OtlpInv'
  <2>. SUFFICES ASSUME OtlpInv, [OtlpNext]_otlpVars PROVE OtlpInv'
    OBVIOUS
  <2>1. CASE UNCHANGED otlpVars
    BY <2>1 DEF otlpVars, OtlpInv, CallsTyped, OneParses, Midway, OtlpSound, AnswersAreOwn, RecordsSound
  <2>2. ASSUME NEW c \in Call, RefuseRoot(c) \/ Enter(c) \/ Accept(c) \/ Refuse(c) \/ Finish(c)
        PROVE  OtlpInv'
    BY <2>2, RefuseRootKeeps, EnterKeeps, AcceptKeeps, RefuseKeeps, FinishKeeps
  <2>. QED BY <2>1, <2>2 DEF OtlpNext
<1>. QED BY <1>1, OtlpBegins, PTL DEF OtlpSpec

\* Each call of parse on a shared ingestor is answered for its own body, with all of its records
\* and removed keys or with a refusal, and no record that is answered carries a credential, a
\* negative duration, a span without a trace or counts that differ from their total.
THEOREM ParsesStaySound == OtlpSpec => []OtlpSound
<1>1. OtlpInv => OtlpSound
  BY DEF OtlpInv
<1>. QED BY <1>1, CallsInvariance, PTL

=============================================================================
