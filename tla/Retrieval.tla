----------------------------- MODULE Retrieval -----------------------------
(***************************************************************************)
(* What the knowledge base answers for a trip (agents/rag_retrieval.py,    *)
(* data/retrieval_repository.py, data/retrieval_fallback.py): three        *)
(* searches side by side, their results fused by rank, and when that       *)
(* leaves nothing, ever less demanding ones; and AMap's place search.      *)
(*                                                                         *)
(* The knowledge base is a table, best rated first.  A row is a place of   *)
(* VrpSolver with more fields: key, its id in the table; city; suits, whom *)
(* it suits; live, that it has not been deprecated; level, that a          *)
(* wheelchair gets about it; embedded, that its description has a vector;  *)
(* and words, those of its text.  A trip has a city, interests, must,      *)
(* style, companions, elderly, children, wheelchair, avoid and walk        *)
(* (minutes, 0 when not said).                                             *)
(***************************************************************************)
EXTENDS Naturals, Sequences, SequencesExt, FiniteSets

TopK == 30
SearchLimit == 50

First(n, s) == SubSeq(s, 1, IF Len(s) < n THEN Len(s) ELSE n)

\* Places that s does not have, by key, are appended once each.
MergeUnique(s, more) ==
  FoldLeft(LAMBDA kept, p:
             IF \E i \in DOMAIN kept: kept[i].key = p.key THEN kept ELSE Append(kept, p),
           s, more)

\* s in the order that Before(i, j) puts its places in.
Ordered(s, Before(_, _)) ==
  LET Rank(i) == 1 + Cardinality({j \in DOMAIN s: Before(j, i)})
  IN  [k \in DOMAIN s |-> s[CHOOSE i \in DOMAIN s: Rank(i) = k]]

LiveIn(city, table) == SelectSeq(table, LAMBDA p: p.city = city /\ p.live)

-----------------------------------------------------------------------------
(* The structured search.                                                  *)

WalkCeiling(t) ==
  CASE t.walk = 0 -> 99
    [] t.walk \in 1..120 -> 2
    [] t.walk \in 121..180 -> 3
    [] OTHER -> 4

SuitableFor(t) ==
  (IF t.companions = "family" \/ t.children THEN {"family_kid"} ELSE {})
    \cup (IF t.elderly THEN {"family_elder"} ELSE {})
    \cup (CASE t.companions = "alone" -> {"solo"}
            [] t.companions \in {"couple", "friends"} -> {t.companions}
            [] OTHER -> {})

Structured(table, t) ==
  First(SearchLimit,
        SelectSeq(LiveIn(t.city, table), LAMBDA p:
                    /\ p.walk <= WalkCeiling(t)
                    /\ t.wheelchair => p.level
                    /\ p.tags \cap t.avoid = {}
                    /\ SuitableFor(t) # {} => p.suits \cap SuitableFor(t) # {}))

-----------------------------------------------------------------------------
(* The searches for words.                                                 *)

\* The interests of the profile are looked for at its top, where it keeps
\* none: they are a part of its personal half.
SearchQuery(t) == {t.city} \cup t.interests \cup t.must \cup t.style

\* nearest is the table in the order of the distance from the query.
SearchVector(nearest, city) ==
  First(SearchLimit, SelectSeq(LiveIn(city, nearest), LAMBDA p: p.embedded))

\* ranked is the table in the order of the rank of its texts; a text that
\* lacks a single word of the query does not match.
SearchBm25(ranked, city, query) ==
  First(SearchLimit, SelectSeq(LiveIn(city, ranked), LAMBDA p: query \subseteq p.words))

\* Without a destination nothing is searched for.
ByVector(t, nearest) == IF t.city = "" THEN <<>> ELSE SearchVector(nearest, t.city)
ByText(t, ranked) == IF t.city = "" THEN <<>> ELSE SearchBm25(ranked, t.city, SearchQuery(t))

-----------------------------------------------------------------------------
(* Reciprocal rank fusion.                                                 *)

RrfK == 60

\* In millionths.
Score(lists, key) ==
  FoldLeft(LAMBDA a, b: a + b, 0,
           [l \in DOMAIN lists |->
              IF \E r \in DOMAIN lists[l]: lists[l][r].key = key
              THEN 1000000 \div (RrfK + CHOOSE r \in DOMAIN lists[l]: lists[l][r].key = key)
              ELSE 0])

\* Of equal scores, the place that was found first comes first.
Fused(lists) ==
  LET found == MergeUnique(<<>>, FlattenSeq(lists))
      Better(i, j) == LET a == Score(lists, found[i].key)
                          b == Score(lists, found[j].key)
                      IN  a > b \/ (a = b /\ i < j)
  IN  Ordered(found, Better)

-----------------------------------------------------------------------------
(* Nothing fused: the filters are dropped, which is also what the popular  *)
(* attractions are; then the few places known by heart are added, whose    *)
(* keys are not those of the knowledge base.                               *)
SafetySet(byHeart, city) == IF city \in DOMAIN byHeart THEN byHeart[city] ELSE <<>>

Fallback(table, city, up, byHeart) ==
  LET relaxed == IF up THEN First(TopK, LiveIn(city, table)) ELSE <<>>
  IN  IF Len(relaxed) >= TopK THEN relaxed ELSE MergeUnique(relaxed, SafetySet(byHeart, city))

\* A search that raises has found nothing.
Guard(up, found) == IF up THEN found ELSE <<>>

(* s says which of the searches succeed: structured, vector, text, and     *)
(* again, the structured one of the fallback; and how the table is ranked  *)
(* for the two searches for words: nearest and ranked.                     *)
Retrieved(table, t, s, byHeart) ==
  LET merged == Fused(<<Guard(s.structured, Structured(table, t)),
                        Guard(s.vector, ByVector(t, s.nearest)),
                        Guard(s.text, ByText(t, s.ranked))>>)
  IN  IF merged # <<>> THEN First(TopK, merged) ELSE Fallback(table, t.city, s.again, byHeart)

-----------------------------------------------------------------------------
(* AMap's place search (data/collectors/amap.py): each type of place is    *)
(* searched for itself, page by page until the last or a failing one.  A   *)
(* page is [ok, raws, count], a raw place [place, named, located].         *)

PageSize == 20
MaxPages == 5

Normalize(raws) ==
  LET usable == SelectSeq(raws, LAMBDA r: r.named /\ r.located)
  IN  [i \in DOMAIN usable |-> usable[i].place]

SearchPage(pages) ==
  LET Reached(n) == \A k \in 1..(n - 1): pages[k].ok /\ k * PageSize < pages[k].count
      read == {n \in DOMAIN pages: n <= MaxPages /\ Reached(n) /\ pages[n].ok}
  IN  FlattenSeq([n \in 1..Cardinality(read) |-> Normalize(pages[n].raws)])

SearchPois(types) == FlattenSeq([t \in DOMAIN types |-> SearchPage(types[t])])
=============================================================================
